---- MODULE Spec2Model ----
(***************************************************************************)
(* No Thanks! server: the Game class (src/server/game.js) and the socket   *)
(* orchestrator around its single instance (src/server/index.js).          *)
(*                                                                         *)
(* Ids are numbers: a socket id is a member of Sockets, a bot id is        *)
(* BotIds[n] for the n-th bot ever created (the code builds it from    *)
(* Date.now() and Math.random(), so it is never reused).  Null (0) stands  *)
(* for JavaScript's null, both for a missing id and for a missing card     *)
(* (cards are 3..35).                                                      *)
(***************************************************************************)
EXTENDS Integers, Sequences, FiniteSets, TLC

VARIABLES
  game,       \* the Game instance of index.js:35, a record of its fields
  botTimers,  \* pending setTimeout callbacks of handleBotTurn, in schedule order
  connected,  \* sockets whose 'disconnect' has not happened yet
  nextBot,    \* number of bots created so far (freshness of bot ids)
  last,       \* the pass/takeCard call the last handler made, and its result
  hist,       \* history of the round being played: successful takeCard calls and
              \* players removed since start(); written by no code, read by none
  fired       \* which timer callback, or which of the join, start and transferHost
              \* handlers, the last step ran, and whether it went past its guards;
              \* written by no code, read by none

vars == <<game, botTimers, connected, nextBot, last, hist, fired>>

----------------------------------------------------------------------------
(* Bounds of the model and input sets *)

MaxPlayable == 2       \* start is explored only when 33 - removedCount <= MaxPlayable
MaxInitTokens == 1     \* start is explored only when initialTokens <= MaxInitTokens

Sockets == {1, 2}
\* the nickname a socket offers to 'join' (already trimmed): its own, or none
NamesOf(s) == IF s = 1 THEN {"", "A"} ELSE IF s = 2 THEN {"", "B"} ELSE {"", "C"}
BotDifficulties == {"medium", "easy"}   \* payloads offered to 'addBot'
BotIds == <<101>>                  \* the ids of the bots created, in creation order

Null == 0

----------------------------------------------------------------------------
(* Program constants *)

CardLo == 3
CardHi == 35
NumCards == CardHi - CardLo + 1
MaxPlayers == 7
MaxBots == 3

DefaultSettings ==
  [ removedCount |-> 9, initialTokens |-> 11, showOpponentTokens |-> TRUE,
    showRealTimeScore |-> TRUE, turnTimeLimit |-> 30 ]

----------------------------------------------------------------------------
(* Array helpers *)

Min2(a, b) == IF a < b THEN a ELSE b
Max2(a, b) == IF a > b THEN a ELSE b

\* Array.prototype.splice(i, 1) on a 1-based position
RemoveAt(s, i) == SubSeq(s, 1, i - 1) \o SubSeq(s, i + 1, Len(s))

\* Array.prototype.findIndex / find by id: the first position, 0 when absent
IndexOfId(players, id) ==
  IF \E i \in 1..Len(players) : players[i].id = id
  THEN CHOOSE i \in 1..Len(players) :
         /\ players[i].id = id
         /\ \A j \in 1..(i - 1) : players[j].id # id
  ELSE 0

\* players.find(p => !p.isBot): the first position, 0 when absent
FirstHuman(players) ==
  IF \E i \in 1..Len(players) : ~players[i].isBot
  THEN CHOOSE i \in 1..Len(players) :
         /\ ~players[i].isBot
         /\ \A j \in 1..(i - 1) : players[j].isBot
  ELSE 0

\* players.filter(p => !p.isBot), order kept
RECURSIVE HumansOf(_)
HumansOf(players) ==
  IF players = <<>> THEN <<>>
  ELSE IF Head(players).isBot THEN HumansOf(Tail(players))
       ELSE <<Head(players)>> \o HumansOf(Tail(players))

BotCount(players) == Cardinality({i \in 1..Len(players) : players[i].isBot})

HasHumanPlayers(g) == \E i \in 1..Len(g.players) : ~g.players[i].isBot

\* players[currentPlayerIndex] (the index is 0-based in the code)
HasCurrent(g) == g.currentPlayerIndex + 1 \in 1..Len(g.players)
Current(g) == g.players[g.currentPlayerIndex + 1]
CurrentId(g) == IF HasCurrent(g) THEN Current(g).id ELSE Null

----------------------------------------------------------------------------
(* Game: construction *)

GameReset ==
  [ players |-> <<>>, deck |-> <<>>, removedCards |-> <<>>, currentCard |-> Null,
    pileTokens |-> 0, currentPlayerIndex |-> 0, started |-> FALSE,
    gameSettings |-> DefaultSettings, hostId |-> Null,
    turnTimer |-> <<>>, turnStartTime |-> Null ]

----------------------------------------------------------------------------
(* Game: lobby operations *)

NewPlayer(id, nickname) ==
  [ id |-> id, nickname |-> nickname, tokens |-> 0, cards |-> <<>>, isBot |-> FALSE,
    difficulty |-> "none" ]

\* addPlayer(id, nickname) whose capacity test is off by one (length > 7)
AddPlayerOverfull(g, id, nickname) ==
  IF g.started THEN [ok |-> FALSE, g |-> g]
  ELSE IF Len(g.players) > MaxPlayers THEN [ok |-> FALSE, g |-> g]
  ELSE IF \E i \in 1..Len(g.players) : g.players[i].nickname = nickname
       THEN [ok |-> FALSE, g |-> g]
  ELSE LET ps == Append(g.players, NewPlayer(id, nickname))
       IN [ok |-> TRUE,
           g |-> [g EXCEPT !.players = ps,
                           !.hostId = IF Len(ps) = 1 THEN id ELSE @]]

\* addPlayer(id, nickname): [ok, g]
GameAddPlayer(g, id, nickname) ==
  IF g.started THEN [ok |-> FALSE, g |-> g]
  ELSE IF Len(g.players) >= MaxPlayers THEN [ok |-> FALSE, g |-> g]
  ELSE IF \E i \in 1..Len(g.players) : g.players[i].nickname = nickname
       THEN [ok |-> FALSE, g |-> g]
  ELSE LET ps == Append(g.players, NewPlayer(id, nickname))
       IN [ok |-> TRUE,
           g |-> [g EXCEPT !.players = ps,
                           !.hostId = IF Len(ps) = 1 THEN id ELSE @]]

\* removePlayer(id) that leaves currentPlayerIndex alone
RemovePlayerNoShift(g, id) ==
  LET pos == IndexOfId(g.players, id)
      ps == RemoveAt(g.players, pos)
      host == IF g.hostId = id /\ Len(ps) > 0
              THEN IF FirstHuman(ps) # 0 THEN ps[FirstHuman(ps)].id ELSE ps[1].id
              ELSE g.hostId
  IN IF pos = 0 THEN g ELSE [g EXCEPT !.players = ps, !.hostId = host]

\* removePlayer(id)
GameRemovePlayer(g, id) ==
  LET pos == IndexOfId(g.players, id)      \* idx + 1
      idx == pos - 1
      wasHost == g.hostId = id
      ps == RemoveAt(g.players, pos)
      host == IF wasHost /\ Len(ps) > 0
              THEN IF FirstHuman(ps) # 0 THEN ps[FirstHuman(ps)].id ELSE ps[1].id
              ELSE g.hostId
      cpi == IF ~g.started THEN g.currentPlayerIndex
             ELSE IF idx < g.currentPlayerIndex THEN g.currentPlayerIndex - 1
             ELSE IF idx = g.currentPlayerIndex /\ g.currentPlayerIndex >= Len(ps) THEN 0
             ELSE g.currentPlayerIndex
  IN IF pos = 0 THEN g
     ELSE [g EXCEPT !.players = ps, !.hostId = host, !.currentPlayerIndex = cpi]

\* the nickname addBot and removeBot give the n-th bot of the list
BotNick(n, difficulty) ==
  IF difficulty = "medium" THEN <<"AI1m", "AI2m", "AI3m">>[n]
  ELSE IF difficulty = "hard" THEN <<"AI1h", "AI2h", "AI3h">>[n]
  ELSE <<"AI1x", "AI2x", "AI3x">>[n]

\* new Bot(botId, nickname, difficulty): the fields the Game reads
NewBot(id, nickname, difficulty) ==
  [ id |-> id, nickname |-> nickname, tokens |-> 0, cards |-> <<>>, isBot |-> TRUE,
    difficulty |-> difficulty ]

\* addBot(difficulty) with `players.length > 7` for `players.length >= 7`
AddBotOverfull(g, botId, difficulty) ==
  IF g.started THEN [ok |-> FALSE, g |-> g]
  ELSE IF Len(g.players) > MaxPlayers THEN [ok |-> FALSE, g |-> g]
  ELSE IF BotCount(g.players) >= MaxBots THEN [ok |-> FALSE, g |-> g]
  ELSE [ok |-> TRUE,
        g |-> [g EXCEPT !.players =
                 Append(@, NewBot(botId, BotNick(BotCount(g.players) + 1, difficulty),
                                  difficulty))]]

\* addBot(difficulty), botId being the fresh id: [ok, g]
GameAddBot(g, botId, difficulty) ==
  IF g.started THEN [ok |-> FALSE, g |-> g]
  ELSE IF Len(g.players) >= MaxPlayers THEN [ok |-> FALSE, g |-> g]
  ELSE IF BotCount(g.players) >= MaxBots THEN [ok |-> FALSE, g |-> g]
  ELSE [ok |-> TRUE,
        g |-> [g EXCEPT !.players =
                 Append(@, NewBot(botId, BotNick(BotCount(g.players) + 1, difficulty),
                                  difficulty))]]

\* the renumbering loop of removeBot: the k-th bot of the list is named BotNick(k, ..)
RenumberBots(players) ==
  [ i \in 1..Len(players) |->
      IF players[i].isBot
      THEN [players[i] EXCEPT !.nickname =
              BotNick(Cardinality({j \in 1..i : players[j].isBot}), players[i].difficulty)]
      ELSE players[i] ]

\* removeBot(botId): [ok, g]
GameRemoveBot(g, botId) ==
  LET hit == {i \in 1..Len(g.players) : g.players[i].id = botId /\ g.players[i].isBot}
  IN IF g.started THEN [ok |-> FALSE, g |-> g]
     ELSE IF hit = {} THEN [ok |-> FALSE, g |-> g]
     ELSE LET pos == CHOOSE i \in hit : \A j \in hit : i <= j
          IN [ok |-> TRUE,
              g |-> [g EXCEPT !.players = RenumberBots(RemoveAt(g.players, pos))]]

\* transferHost(currentHostId, newHostId) without the test that the target is a player
TransferHostToAnyone(g, currentHostId, newHostId) ==
  IF g.hostId # currentHostId THEN [ok |-> FALSE, g |-> g]
  ELSE [ok |-> TRUE, g |-> [g EXCEPT !.hostId = newHostId]]

\* transferHost(currentHostId, newHostId): [ok, g]
GameTransferHost(g, currentHostId, newHostId) ==
  IF g.hostId # currentHostId THEN [ok |-> FALSE, g |-> g]
  ELSE IF IndexOfId(g.players, newHostId) = 0 THEN [ok |-> FALSE, g |-> g]
  ELSE [ok |-> TRUE, g |-> [g EXCEPT !.hostId = newHostId]]

\* { ...gameSettings, ...newSettings }: newSettings is a function on some field names
MergeSettings(old, new) ==
  [ f \in DOMAIN old \cup DOMAIN new |-> IF f \in DOMAIN new THEN new[f] ELSE old[f] ]

Clamp(lo, hi, x) == Max2(lo, Min2(hi, x))

\* updateSettings(newSettings) taking the supplied numbers as changes to the
\* current values
UpdateSettingsRelative(g, new) ==
  IF g.started THEN [ok |-> FALSE, g |-> g]
  ELSE LET old == g.gameSettings
           m == [ f \in DOMAIN old \cup DOMAIN new |->
                    IF f \notin DOMAIN new THEN old[f]
                    ELSE IF f \in {"removedCount", "initialTokens", "turnTimeLimit"}
                              /\ f \in DOMAIN old
                         THEN old[f] + new[f]
                         ELSE new[f] ]
       IN [ok |-> TRUE,
           g |-> [g EXCEPT !.gameSettings =
                    [m EXCEPT !.removedCount = Clamp(1, 32, @),
                              !.initialTokens = Clamp(1, 50, @),
                              !.turnTimeLimit = Clamp(0, 300, @)]]]

\* updateSettings(newSettings) without the test of `started`
UpdateSettingsAnytime(g, new) ==
  LET m == MergeSettings(g.gameSettings, new)
  IN [ok |-> TRUE,
      g |-> [g EXCEPT !.gameSettings =
               [m EXCEPT !.removedCount = Clamp(1, 32, @),
                         !.initialTokens = Clamp(1, 50, @),
                         !.turnTimeLimit = Clamp(0, 300, @)]]]

\* updateSettings(newSettings): [ok, g]
GameUpdateSettings(g, new) ==
  IF g.started THEN [ok |-> FALSE, g |-> g]
  ELSE LET m == MergeSettings(g.gameSettings, new)
       IN [ok |-> TRUE,
           g |-> [g EXCEPT !.gameSettings =
                    [m EXCEPT !.removedCount = Clamp(1, 32, @),
                              !.initialTokens = Clamp(1, 50, @),
                              !.turnTimeLimit = Clamp(0, 300, @)]]]

----------------------------------------------------------------------------
(* Game: the round *)

\* the deck 3..35 in one of the orders the shuffle of start() can leave it in:
\* position i holds card ((i - 1) * stride + offset) mod 33 + 3
Shuffled(stride, offset) ==
  [ i \in 1..NumCards |-> (((i - 1) * stride + offset) % NumCards) + CardLo ]

Shuffles == { Shuffled(2, 0) }

\* the orders shufflePlayerOrder() can leave n players in
PlayerOrders(n) ==
  { f \in [1..n -> 1..n] : \A i, j \in 1..n : i # j => f[i] # f[j] }

\* nextCard() that never deals the last card of the deck
NextCardKeepsLast(deck) ==
  IF Len(deck) > 1 THEN [card |-> Head(deck), deck |-> Tail(deck)]
  ELSE [card |-> Null, deck |-> deck]

\* nextCard() that reads the top card and leaves it on the deck
NextCardLeavesCard(deck) ==
  IF Len(deck) > 0 THEN [card |-> Head(deck), deck |-> deck]
  ELSE [card |-> Null, deck |-> deck]

\* nextCard(): [card, deck]
NextCard(deck) ==
  IF Len(deck) > 0 THEN [card |-> Head(deck), deck |-> Tail(deck)]
  ELSE [card |-> Null, deck |-> deck]

\* start() with one step changed: "again" starts over a game already started,
\* "tokens" leaves the players' tokens as they are
GameStartVariant(g, shuffled, order, slip) ==
  IF g.started /\ slip # "again" THEN [ok |-> FALSE, g |-> g]
  ELSE LET k == Min2(g.gameSettings.removedCount, Len(shuffled))
           removed == SubSeq(shuffled, 1, k)
           rest == SubSeq(shuffled, k + 1, Len(shuffled))
           ps == [ i \in 1..Len(g.players) |->
                     [g.players[order[i]] EXCEPT
                        !.tokens = IF slip = "tokens" THEN @ ELSE g.gameSettings.initialTokens,
                        !.cards = <<>>] ]
           drawn == NextCard(rest)
       IN [ok |-> TRUE,
           g |-> [g EXCEPT !.removedCards = removed, !.deck = drawn.deck,
                           !.players = ps, !.currentPlayerIndex = 0,
                           !.currentCard = drawn.card, !.pileTokens = 0,
                           !.started = TRUE]]

GameStartAgain(g, shuffled, order) == GameStartVariant(g, shuffled, order, "again")
GameStartKeepsTokens(g, shuffled, order) == GameStartVariant(g, shuffled, order, "tokens")

\* start(), the shuffles having produced `shuffled` and `order`: [ok, g]
GameStart(g, shuffled, order) ==
  IF g.started THEN [ok |-> FALSE, g |-> g]
  ELSE LET k == Min2(g.gameSettings.removedCount, Len(shuffled))
           removed == SubSeq(shuffled, 1, k)
           rest == SubSeq(shuffled, k + 1, Len(shuffled))
           ps == [ i \in 1..Len(g.players) |->
                     [g.players[order[i]] EXCEPT !.tokens = g.gameSettings.initialTokens,
                                                 !.cards = <<>>] ]
           drawn == NextCard(rest)
       IN [ok |-> TRUE,
           g |-> [g EXCEPT !.removedCards = removed, !.deck = drawn.deck,
                           !.players = ps, !.currentPlayerIndex = 0,
                           !.currentCard = drawn.card, !.pileTokens = 0,
                           !.started = TRUE]]

\* results of pass and takeCard
ErrNotStarted == "error: Game not started"
ErrNotYourTurn == "error: Not your turn"
Continue == "gameOver: false"
GameOver == "gameOver: true"
IsError(res) == res \in {ErrNotStarted, ErrNotYourTurn}

\* takeCard(id) with one step changed: "drop" does not put the card in the hand,
\* "pile" leaves the tokens on the pile, "turn" serves whoever calls
TakeCardVariant(g, id, slip) ==
  LET who == IF slip = "turn" THEN IndexOfId(g.players, id) ELSE g.currentPlayerIndex + 1
  IN IF ~g.started THEN [res |-> ErrNotStarted, g |-> g]
     ELSE IF who \notin 1..Len(g.players) \/ g.players[who].id # id
          THEN [res |-> ErrNotYourTurn, g |-> g]
     ELSE LET p0 == g.players[who]
              p1 == IF g.currentCard # Null /\ slip # "drop"
                    THEN [p0 EXCEPT !.cards = Append(@, g.currentCard)] ELSE p0
              p2 == IF g.pileTokens > 0
                    THEN [p1 EXCEPT !.tokens = @ + g.pileTokens] ELSE p1
              drawn == NextCard(g.deck)
              g1 == [g EXCEPT !.players[who] = p2,
                              !.pileTokens = IF slip = "pile" THEN @ ELSE 0,
                              !.currentCard = drawn.card, !.deck = drawn.deck]
          IN IF drawn.card = Null
             THEN [res |-> GameOver, g |-> [g1 EXCEPT !.started = FALSE]]
             ELSE [res |-> Continue, g |-> g1]

TakeCardLosesCard(g, id) == TakeCardVariant(g, id, "drop")
TakeCardKeepsPile(g, id) == TakeCardVariant(g, id, "pile")
TakeCardNoTurnCheck(g, id) == TakeCardVariant(g, id, "turn")

\* takeCard(id): [res, g]
GameTakeCard(g, id) ==
  IF ~g.started THEN [res |-> ErrNotStarted, g |-> g]
  ELSE IF ~HasCurrent(g) \/ CurrentId(g) # id THEN [res |-> ErrNotYourTurn, g |-> g]
  ELSE LET c == g.currentPlayerIndex + 1
           p0 == g.players[c]
           p1 == IF g.currentCard # Null
                 THEN [p0 EXCEPT !.cards = Append(@, g.currentCard)] ELSE p0
           p2 == IF g.pileTokens > 0
                 THEN [p1 EXCEPT !.tokens = @ + g.pileTokens] ELSE p1
           drawn == NextCard(g.deck)
           g1 == [g EXCEPT !.players[c] = p2, !.pileTokens = 0,
                           !.currentCard = drawn.card, !.deck = drawn.deck]
       IN IF drawn.card = Null
          THEN [res |-> GameOver, g |-> [g1 EXCEPT !.started = FALSE]]
          ELSE [res |-> Continue, g |-> g1]

\* pass(id) with one step changed: "guard" pays a token whatever the count,
\* "wrap" advances without the modulo, "forced" advances the turn after a forced take
PassVariant(g, id, slip) ==
  IF ~g.started THEN [res |-> ErrNotStarted, g |-> g]
  ELSE IF ~HasCurrent(g) \/ CurrentId(g) # id THEN [res |-> ErrNotYourTurn, g |-> g]
  ELSE IF Current(g).tokens > 0 \/ slip = "guard"
       THEN [res |-> Continue,
             g |-> [g EXCEPT !.players[g.currentPlayerIndex + 1].tokens = @ - 1,
                             !.pileTokens = @ + 1,
                             !.currentPlayerIndex =
                               IF slip = "wrap" THEN @ + 1 ELSE (@ + 1) % Len(g.players)]]
  ELSE LET t == GameTakeCard(g, id)
       IN IF slip = "forced" /\ t.res = Continue
          THEN [t EXCEPT !.g.currentPlayerIndex = (@ + 1) % Len(g.players)]
          ELSE t

PassWithoutTokenCheck(g, id) == PassVariant(g, id, "guard")
PassNoWrap(g, id) == PassVariant(g, id, "wrap")
PassForcedTakeAdvances(g, id) == PassVariant(g, id, "forced")

\* pass(id): [res, g]
GamePass(g, id) ==
  IF ~g.started THEN [res |-> ErrNotStarted, g |-> g]
  ELSE IF ~HasCurrent(g) \/ CurrentId(g) # id THEN [res |-> ErrNotYourTurn, g |-> g]
  ELSE IF Current(g).tokens > 0
       THEN [res |-> Continue,
             g |-> [g EXCEPT !.players[g.currentPlayerIndex + 1].tokens = @ - 1,
                             !.pileTokens = @ + 1,
                             !.currentPlayerIndex = (@ + 1) % Len(g.players)]]
  ELSE GameTakeCard(g, id)

----------------------------------------------------------------------------
(* Game: the turn countdown and the reset after a round *)

\* The turn a callback is scheduled in.  The callbacks of the code capture nothing
\* of it (the countdown) or only the bot (the bot decision); the model records it
\* with the pending callback so that "scheduled for another turn" can be stated.
\* Within a round a pass raises the pile, a take changes the card and a removal of
\* the current player changes the nickname, so the record names the turn.
TurnOf(g) ==
  [ id |-> CurrentId(g),
    nickname |-> IF HasCurrent(g) THEN Current(g).nickname ELSE "",
    card |-> g.currentCard, pile |-> g.pileTokens ]

\* clearTurnTimer()
ClearTurnTimer(g) == [g EXCEPT !.turnTimer = <<>>, !.turnStartTime = Null]

\* startTurnTimer(onTimeout): turnTimer holds the pending countdown, turnStartTime
\* is 1 for a Date.now() value
StartTurnTimer(g) ==
  IF g.gameSettings.turnTimeLimit = 0 THEN ClearTurnTimer(g)
  ELSE [g EXCEPT !.turnTimer = <<TurnOf(g)>>, !.turnStartTime = 1]

\* softReset() that keeps the bots in the list
SoftResetKeepsBots(g) ==
  LET ps == [ i \in 1..Len(g.players) |-> [g.players[i] EXCEPT !.tokens = 0, !.cards = <<>>] ]
      hostExists == IndexOfId(ps, g.hostId) # 0
  IN [ players |-> ps, deck |-> <<>>, removedCards |-> <<>>, currentCard |-> Null,
       pileTokens |-> 0, currentPlayerIndex |-> 0, started |-> FALSE,
       gameSettings |-> DefaultSettings,
       hostId |-> IF hostExists THEN g.hostId
                  ELSE IF Len(ps) > 0 THEN ps[1].id ELSE Null,
       turnTimer |-> <<>>, turnStartTime |-> Null ]

\* softReset()
GameSoftReset(g) ==
  LET humans == HumansOf(g.players)
      ps == [ i \in 1..Len(humans) |-> [humans[i] EXCEPT !.tokens = 0, !.cards = <<>>] ]
      hostExists == IndexOfId(ps, g.hostId) # 0
  IN [ players |-> ps, deck |-> <<>>, removedCards |-> <<>>, currentCard |-> Null,
       pileTokens |-> 0, currentPlayerIndex |-> 0, started |-> FALSE,
       gameSettings |-> DefaultSettings,
       hostId |-> IF hostExists THEN g.hostId
                  ELSE IF Len(ps) > 0 THEN ps[1].id ELSE Null,
       turnTimer |-> <<>>, turnStartTime |-> Null ]

----------------------------------------------------------------------------
(* Game: scoring *)

\* x put into the ascending sequence `sorted`, after the elements equal to it
RECURSIVE InsertAsc(_, _)
InsertAsc(x, sorted) ==
  IF sorted = <<>> THEN <<x>>
  ELSE IF x < sorted[1] THEN <<x>> \o sorted
  ELSE <<sorted[1]>> \o InsertAsc(x, Tail(sorted))

\* [...cards].sort((a, b) => a - b)
RECURSIVE SortAsc(_)
SortAsc(cards) ==
  IF cards = <<>> THEN <<>>
  ELSE InsertAsc(cards[Len(cards)], SortAsc(SubSeq(cards, 1, Len(cards) - 1)))

\* the forEach of calculateScores over cards taken in the order given: a card counts
\* when it is the first or is not the previous card plus one
RECURSIVE RunSum(_, _)
RunSum(cards, n) ==
  IF n = 0 THEN 0
  ELSE RunSum(cards, n - 1)
         + (IF n = 1 \/ cards[n] # cards[n - 1] + 1 THEN cards[n] ELSE 0)

\* the score of calculateScores computed on the hand as it lies, without the sort
ScoreUnsorted(cards, tokens) == RunSum(cards, Len(cards)) - tokens

\* the score calculateScores gives a player holding `cards` and `tokens`
ScoreOf(cards, tokens) ==
  LET sorted == SortAsc(cards)
  IN RunSum(sorted, Len(sorted)) - tokens

\* result r put into `sorted` (ascending score) after the results of equal score:
\* Array.prototype.sort is stable
RECURSIVE InsertResult(_, _)
InsertResult(r, sorted) ==
  IF sorted = <<>> THEN <<r>>
  ELSE IF r.score < sorted[1].score THEN <<r>> \o sorted
  ELSE <<sorted[1]>> \o InsertResult(r, Tail(sorted))

\* r put into `sorted` before the results of equal score
RECURSIVE InsertResultFirst(_, _)
InsertResultFirst(r, sorted) ==
  IF sorted = <<>> THEN <<r>>
  ELSE IF r.score <= sorted[1].score THEN <<r>> \o sorted
  ELSE <<sorted[1]>> \o InsertResultFirst(r, Tail(sorted))

\* the sort of the results that puts a later player before an earlier one of equal score
RECURSIVE SortResultsTiesReversed(_)
SortResultsTiesReversed(results) ==
  IF results = <<>> THEN <<>>
  ELSE InsertResultFirst(results[Len(results)],
                         SortResultsTiesReversed(SubSeq(results, 1, Len(results) - 1)))

\* results.sort((a, b) => a.score - b.score)
RECURSIVE SortResults(_)
SortResults(results) ==
  IF results = <<>> THEN <<>>
  ELSE InsertResult(results[Len(results)],
                    SortResults(SubSeq(results, 1, Len(results) - 1)))

\* calculateScores(): the results in rank order
CalculateScores(g) ==
  LET results == [ i \in 1..Len(g.players) |->
                     [ nickname |-> g.players[i].nickname,
                       score |-> ScoreOf(g.players[i].cards, g.players[i].tokens),
                       cards |-> g.players[i].cards,
                       tokens |-> g.players[i].tokens ] ]
      sorted == SortResults(results)
  IN [ idx \in 1..Len(sorted) |->
         [ nickname |-> sorted[idx].nickname, score |-> sorted[idx].score,
           cards |-> sorted[idx].cards, tokens |-> sorted[idx].tokens,
           rank |-> idx ] ]

\* getState(): what is broadcast to the clients
GetState(g) ==
  [ players |-> [ i \in 1..Len(g.players) |->
                    [ id |-> g.players[i].id, nickname |-> g.players[i].nickname,
                      tokens |-> g.players[i].tokens, cards |-> g.players[i].cards,
                      isBot |-> g.players[i].isBot ] ],
    currentCard |-> g.currentCard,
    pileTokens |-> g.pileTokens,
    currentPlayerId |-> CurrentId(g),
    deckSize |-> Len(g.deck),
    removedCount |-> Len(g.removedCards),
    started |-> g.started,
    hostId |-> g.hostId,
    gameSettings |-> g.gameSettings,
    turnStartTime |-> g.turnStartTime ]

----------------------------------------------------------------------------
(* Orchestrator helpers (index.js).  Each returns [g, bt]: the Game and the      *)
(* pending bot callbacks it leaves.  broadcastState and the notifyBots* hooks    *)
(* (index.js 160-283) write no field of the Game; what they call on the Bot      *)
(* objects (reactToEvent, observePlayerAction) is not part of this model, which  *)
(* follows the handlers as they run when those calls return.                     *)

\* handleBotTurn(): schedules a decision for the current player when it is a bot
HandleBotTurn(g, bt) ==
  IF ~HasCurrent(g) \/ ~Current(g).isBot THEN bt
  ELSE Append(bt, [bot |-> Current(g).id, turn |-> TurnOf(g)])

\* startNextTurn()
StartNextTurn(g, bt) ==
  IF HasCurrent(g) /\ Current(g).isBot
  THEN LET g1 == [g EXCEPT !.turnStartTime = Null]
       IN [g |-> g1, bt |-> HandleBotTurn(g1, bt)]
  ELSE [g |-> StartTurnTimer(g), bt |-> bt]

\* handleGameEnd(results, ...)
HandleGameEnd(g) ==
  LET g1 == GameSoftReset(g)
  IN IF ~HasHumanPlayers(g1) THEN GameReset ELSE g1

\* the tail shared by the pass, take, timeout and bot handlers:
\* if (result && result.gameOver) handleGameEnd(scores) else startNextTurn()
AfterAction(r, bt) ==
  IF r.res = GameOver THEN [g |-> HandleGameEnd(r.g), bt |-> bt]
  ELSE StartNextTurn(r.g, bt)

\* handleTurnTimeout(playerId): [g, bt, op, res]
HandleTurnTimeout(g, bt, playerId) ==
  LET pos == IndexOfId(g.players, playerId)
  IN IF pos = 0 THEN [g |-> g, bt |-> bt, op |-> "none", res |-> "none"]
     ELSE LET op == IF g.players[pos].tokens > 0 THEN "pass" ELSE "take"
              r == IF op = "pass" THEN GamePass(g, playerId) ELSE GameTakeCard(g, playerId)
              a == AfterAction(r, bt)
          IN [g |-> a.g, bt |-> a.bt, op |-> op, res |-> r.res]

NoCall == [op |-> "none", res |-> "none"]

----------------------------------------------------------------------------
(* Initial state and the handlers *)

NoHist == [takes |-> 0, left |-> 0]

\* what `fired` holds after any other handler
NoFire == [by |-> "none", acted |-> FALSE]

\* the history after a handler: g is the Game before it, g2 after it, call is what
\* `last` becomes; a pass of a player without tokens is a takeCard call
HistStep(g, g2, call) ==
  IF ~g2.started \/ ~g.started THEN NoHist
  ELSE LET took == /\ call.op \in {"pass", "take"}
                   /\ ~IsError(call.res)
                   /\ (call.op = "take" \/ Current(g).tokens = 0)
       IN [ takes |-> hist.takes + (IF took THEN 1 ELSE 0),
            left |-> hist.left + (IF Len(g2.players) < Len(g.players) THEN 1 ELSE 0) ]

Init ==
  /\ game = GameReset
  /\ hist = NoHist
  /\ botTimers = <<>>
  /\ connected = Sockets
  /\ nextBot = 0
  /\ last = NoCall
  /\ fired = NoFire

\* socket.on('join'), nickname already trimmed
Join(s, nickname) ==
  /\ s \in connected
  /\ game' = IF nickname = "" THEN game ELSE GameAddPlayer(game, s, nickname).g
  /\ last' = NoCall
  /\ UNCHANGED <<botTimers, connected, nextBot>>
  /\ hist' = HistStep(game, game', last')
  /\ fired' = [by |-> "join", acted |-> nickname # "" /\ GameAddPlayer(game, s, nickname).ok]

\* the settings a round is explored with
WithinBounds(g) ==
  /\ NumCards - g.gameSettings.removedCount <= MaxPlayable
  /\ g.gameSettings.initialTokens <= MaxInitTokens

\* socket.on('start'); the two shuffles of start() are drawn once it is reached,
\* the player order among `orders`
StartWith(s, orders) ==
  /\ s \in connected
  /\ IF s # game.hostId \/ game.started \/ ~HasHumanPlayers(game)
     THEN UNCHANGED <<game, botTimers>>
     ELSE /\ WithinBounds(game)
          /\ \E shuffled \in Shuffles, order \in orders :
               LET r == GameStart(game, shuffled, order)
                   a == StartNextTurn(r.g, botTimers)
               IN IF r.ok THEN game' = a.g /\ botTimers' = a.bt
                  ELSE UNCHANGED <<game, botTimers>>
  /\ last' = NoCall
  /\ UNCHANGED <<connected, nextBot>>
  /\ hist' = HistStep(game, game', last')
  /\ fired' = [by |-> "start", acted |-> ~game.started /\ game'.started]

\* socket.on('start')
Start(s) == StartWith(s, PlayerOrders(Len(game.players)))

\* socket.on('pass')
Pass(s) ==
  /\ s \in connected
  /\ LET r == GamePass(game, s)
         a == AfterAction(r, botTimers)
     IN /\ IF IsError(r.res) THEN UNCHANGED <<game, botTimers>>
           ELSE game' = a.g /\ botTimers' = a.bt
        /\ last' = [op |-> "pass", res |-> r.res]
  /\ UNCHANGED <<connected, nextBot>>
  /\ hist' = HistStep(game, game', last')
  /\ fired' = NoFire

\* socket.on('take'); takeCard never returns needsDelay, so that branch is dead
Take(s) ==
  /\ s \in connected
  /\ LET r == GameTakeCard(game, s)
         a == AfterAction(r, botTimers)
     IN /\ IF IsError(r.res) THEN UNCHANGED <<game, botTimers>>
           ELSE game' = a.g /\ botTimers' = a.bt
        /\ last' = [op |-> "take", res |-> r.res]
  /\ UNCHANGED <<connected, nextBot>>
  /\ hist' = HistStep(game, game', last')
  /\ fired' = NoFire

\* the setTimeout callback of startTurnTimer fires
TurnTimerFire ==
  /\ game.turnTimer # <<>>
  /\ LET g0 == [game EXCEPT !.turnTimer = <<>>]
     IN IF HasCurrent(g0) /\ ~Current(g0).isBot
        THEN LET h == HandleTurnTimeout(g0, botTimers, Current(g0).id)
             IN /\ game' = h.g
                /\ botTimers' = h.bt
                /\ last' = [op |-> h.op, res |-> h.res]
        ELSE /\ game' = g0
             /\ last' = NoCall
             /\ UNCHANGED botTimers
  /\ UNCHANGED <<connected, nextBot>>
  /\ hist' = HistStep(game, game', last')
  /\ fired' = [by |-> "countdown", acted |-> last'.op # "none"]

\* the callback of handleBotTurn with its guard reading only game.started: the
\* decision is applied to whoever is current
BotTimerFireForCurrent(i, action) ==
  /\ i \in 1..Len(botTimers)
  /\ LET bt == RemoveAt(botTimers, i)
     IN IF ~game.started
        THEN /\ botTimers' = bt
             /\ last' = NoCall
             /\ UNCHANGED game
        ELSE LET r == IF action = "take" THEN GameTakeCard(game, CurrentId(game))
                      ELSE GamePass(game, CurrentId(game))
                 a == AfterAction(r, bt)
             IN /\ game' = a.g
                /\ botTimers' = a.bt
                /\ last' = [op |-> action, res |-> r.res]
  /\ UNCHANGED <<connected, nextBot>>
  /\ hist' = HistStep(game, game', last')
  /\ fired' = [by |-> "decision", acted |-> last'.op # "none"]

\* the setTimeout callback of handleBotTurn fires; `action` is what makeDecision returns
BotTimerFire(i, action) ==
  /\ i \in 1..Len(botTimers)
  /\ LET cb == botTimers[i]
         bt == RemoveAt(botTimers, i)
     IN IF ~game.started \/ CurrentId(game) # cb.bot
        THEN /\ botTimers' = bt
             /\ last' = NoCall
             /\ UNCHANGED game
        ELSE LET r == IF action = "take" THEN GameTakeCard(game, cb.bot)
                      ELSE GamePass(game, cb.bot)
                 a == AfterAction(r, bt)
             IN /\ game' = a.g
                /\ botTimers' = a.bt
                /\ last' = [op |-> action, res |-> r.res]
  /\ UNCHANGED <<connected, nextBot>>
  /\ hist' = HistStep(game, game', last')
  /\ fired' = [by |-> "decision", acted |-> last'.op # "none"]

\* payloads offered to 'updateSettings'
SettingsInputs ==
  { [removedCount |-> 30], [removedCount |-> 31],
    [initialTokens |-> 0], [initialTokens |-> 2], [turnTimeLimit |-> 0] }

\* socket.on('updateSettings')
UpdateSettings(s, new) ==
  /\ s \in connected
  /\ game' = IF s # game.hostId THEN game ELSE GameUpdateSettings(game, new).g
  /\ last' = NoCall
  /\ UNCHANGED <<botTimers, connected, nextBot>>
  /\ hist' = HistStep(game, game', last')
  /\ fired' = NoFire

\* socket.on('transferHost')
TransferHost(s, newHostId) ==
  /\ s \in connected
  /\ game' = GameTransferHost(game, s, newHostId).g
  /\ last' = NoCall
  /\ UNCHANGED <<botTimers, connected, nextBot>>
  /\ hist' = HistStep(game, game', last')
  /\ fired' = [by |-> "transferHost", acted |-> GameTransferHost(game, s, newHostId).ok]

\* socket.on('addBot'), the bots created taking their ids from `ids` in order
AddBotFrom(ids, s, difficulty) ==
  /\ s \in connected
  /\ IF difficulty \notin {"medium", "hard", "expert"}
        \/ game.hostId = Null \/ s # game.hostId
     THEN UNCHANGED <<game, nextBot>>
     ELSE /\ nextBot < Len(ids)
          /\ LET r == GameAddBot(game, ids[nextBot + 1], difficulty)
             IN IF r.ok THEN game' = r.g /\ nextBot' = nextBot + 1
                ELSE UNCHANGED <<game, nextBot>>
  /\ last' = NoCall
  /\ UNCHANGED <<botTimers, connected>>
  /\ hist' = HistStep(game, game', last')
  /\ fired' = NoFire

\* socket.on('addBot')
AddBot(s, difficulty) == AddBotFrom(BotIds, s, difficulty)

\* socket.on('removeBot')
RemoveBot(s, botId) ==
  /\ s \in connected
  /\ game' = IF game.hostId = Null \/ s # game.hostId THEN game
             ELSE GameRemoveBot(game, botId).g
  /\ last' = NoCall
  /\ UNCHANGED <<botTimers, connected, nextBot>>
  /\ hist' = HistStep(game, game', last')
  /\ fired' = NoFire

\* socket.on('disconnect') without the test `game.players.length < 2`
DisconnectPlaysOn(s) ==
  /\ s \in connected
  /\ connected' = connected \ {s}
  /\ LET g1 == GameRemovePlayer(game, s)
     IN game' =
          IF ~HasHumanPlayers(g1) /\ Len(g1.players) > 0
          THEN IF g1.started THEN HandleGameEnd(g1) ELSE GameReset
          ELSE g1
  /\ last' = NoCall
  /\ UNCHANGED <<botTimers, nextBot>>
  /\ hist' = HistStep(game, game', last')
  /\ fired' = NoFire

\* socket.on('disconnect')
Disconnect(s) ==
  /\ s \in connected
  /\ connected' = connected \ {s}
  /\ LET g1 == GameRemovePlayer(game, s)
     IN game' =
          IF ~HasHumanPlayers(g1) /\ Len(g1.players) > 0
          THEN IF g1.started THEN HandleGameEnd(g1) ELSE GameReset
          ELSE IF g1.started /\ Len(g1.players) < 2 THEN HandleGameEnd(g1)
          ELSE g1
  /\ last' = NoCall
  /\ UNCHANGED <<botTimers, nextBot>>
  /\ hist' = HistStep(game, game', last')
  /\ fired' = NoFire

\* ids a payload can name: the sockets (joined or not) and the bots created so far
KnownIds == Sockets \cup { BotIds[n] : n \in 1..nextBot }

Next ==
  \/ \E s \in Sockets : \E n \in NamesOf(s) : Join(s, n)
  \/ \E s \in Sockets : Start(s)
  \/ \E s \in Sockets : Pass(s)
  \/ \E s \in Sockets : Take(s)
  \/ TurnTimerFire
  \/ \E i \in 1..Len(botTimers), a \in {"take", "pass"} : BotTimerFire(i, a)
  \/ \E s \in Sockets, new \in SettingsInputs : UpdateSettings(s, new)
  \/ \E s \in Sockets, t \in KnownIds : TransferHost(s, t)
  \/ \E s \in Sockets, d \in BotDifficulties : AddBot(s, d)
  \/ \E s \in Sockets, b \in KnownIds : RemoveBot(s, b)
  \/ \E s \in Sockets : Disconnect(s)

Spec == Init /\ [][Next]_vars

----------------------------------------------------------------------------
(* A lobby of three people and no bot: the same handlers, a third socket *)

ThreeSockets == Sockets \cup {3}

InitHumans ==
  /\ game = GameReset
  /\ hist = NoHist
  /\ botTimers = <<>>
  /\ connected = ThreeSockets
  /\ nextBot = 0
  /\ last = NoCall
  /\ fired = NoFire

NextHumans ==
  \/ \E s \in ThreeSockets : \E n \in NamesOf(s) : Join(s, n)
  \/ \E s \in ThreeSockets : Start(s)
  \/ \E s \in ThreeSockets : Pass(s)
  \/ \E s \in ThreeSockets : Take(s)
  \/ TurnTimerFire
  \/ \E s \in ThreeSockets, new \in SettingsInputs : UpdateSettings(s, new)
  \/ \E s \in ThreeSockets : Disconnect(s)

SpecHumans == InitHumans /\ [][NextHumans]_vars

----------------------------------------------------------------------------
(* Two people and two bots created one after the other: the handlers around   *)
(* the bot decisions                                                          *)

TwoBotIds == <<101, 102>>

\* payloads offered to 'updateSettings' here
BotSettingsInputs == { [removedCount |-> 30], [removedCount |-> 31], [initialTokens |-> 0] }

NextBots ==
  \/ \E s \in Sockets : \E n \in NamesOf(s) : Join(s, n)
  \/ \E s \in Sockets : Start(s)
  \/ \E s \in Sockets : Pass(s)
  \/ \E s \in Sockets : Take(s)
  \/ TurnTimerFire
  \/ \E i \in 1..Len(botTimers), a \in {"take", "pass"} : BotTimerFire(i, a)
  \/ \E s \in Sockets, new \in BotSettingsInputs : UpdateSettings(s, new)
  \/ \E s \in Sockets : AddBotFrom(TwoBotIds, s, "medium")
  \/ \E s \in Sockets : Disconnect(s)

SpecBots == Init /\ [][NextBots]_vars

----------------------------------------------------------------------------
(* A socket that sends 'join' twice, under two nicknames: addPlayer compares   *)
(* nicknames only, so both entries are players and share the socket's id       *)

TwiceNames == {"A", "A2"}

NextTwice ==
  \/ \E n \in TwiceNames : Join(1, n)
  \/ Join(2, "B")
  \/ \E s \in Sockets : Start(s)
  \/ \E s \in Sockets : Pass(s)
  \/ \E s \in Sockets : Take(s)
  \/ TurnTimerFire
  \/ \E s \in Sockets, new \in SettingsInputs : UpdateSettings(s, new)
  \/ \E s \in Sockets : Disconnect(s)

SpecTwice == Init /\ [][NextTwice]_vars

----------------------------------------------------------------------------
(* A lobby that fills up: empty at first, or four people have joined (three   *)
(* of them stay silent); two more sockets and the host's bots come and go     *)

LobbyBotIds == <<201, 202, 203, 204>>
SilentIds == {12, 13, 14}
LobbyNamesOf(s) == IF s = 1 THEN {"A"} ELSE IF s = 2 THEN {"B", "P"} ELSE {"C"}
LobbySettingsInputs == { [removedCount |-> 31, initialTokens |-> 1] }

\* the Game after join A (socket 1), join P (12), join Q (13), join R (14)
LobbyOfFour ==
  GameAddPlayer(GameAddPlayer(GameAddPlayer(GameAddPlayer(
    GameReset, 1, "A").g, 12, "P").g, 13, "Q").g, 14, "R").g

\* the server just created, or with the four in the lobby
InitLobby ==
  /\ game \in {GameReset, LobbyOfFour}
  /\ hist = NoHist
  /\ botTimers = <<>>
  /\ connected = ThreeSockets \cup (IF game = GameReset THEN {} ELSE SilentIds)
  /\ nextBot = 0
  /\ last = NoCall
  /\ fired = NoFire

\* shufflePlayerOrder() leaving the players in the order they joined
JoinOrder(n) == [ i \in 1..n |-> i ]

NextLobby ==
  \/ \E s \in ThreeSockets : \E n \in LobbyNamesOf(s) : Join(s, n)
  \/ \E s \in ThreeSockets, d \in BotDifficulties : AddBotFrom(LobbyBotIds, s, d)
  \/ \E s \in ThreeSockets, new \in LobbySettingsInputs : UpdateSettings(s, new)
  \/ \E s \in ThreeSockets : StartWith(s, {JoinOrder(Len(game.players))})
  \/ \E s \in ThreeSockets : Disconnect(s)

SpecLobby == InitLobby /\ [][NextLobby]_vars

----------------------------------------------------------------------------
(* Scoring: calculateScores applied to games that have just ended *)

TieCards == {3, 4, 5, 7}               \* the cards dealt among two or three players
ScoreTokens == {0, 1, 2}               \* the tokens a player is left with
ScoreNames == <<"A", "B", "C">>

\* the orders in which the cards of S can have been taken
Orderings(S) ==
  { f \in [1..Cardinality(S) -> S] : \A i, j \in 1..Cardinality(S) : i # j => f[i] # f[j] }

\* the cards of `cards` that `owner` gives to player i
HeldBy(owner, i) == { c \in DOMAIN owner : owner[c] = i }

\* the hands two players can hold of `cards`, any card being possibly held by nobody
HandsOfTwo(cards) ==
  UNION { { <<a, b>> : a \in Orderings(HeldBy(owner, 1)), b \in Orderings(HeldBy(owner, 2)) }
          : owner \in [cards -> 0..2] }

\* the hands three players can hold of `cards`
HandsOfThree(cards) ==
  UNION { { <<a, b, c>> : a \in Orderings(HeldBy(owner, 1)), b \in Orderings(HeldBy(owner, 2)),
                          c \in Orderings(HeldBy(owner, 3)) }
          : owner \in [cards -> 0..3] }

\* the Game when takeCard has taken the last card: no deck, no card, no pile, and
\* started set to false
EndedGame(hands, tokens) ==
  [ GameReset EXCEPT
      !.players = [ i \in 1..Len(hands) |->
                      [ NewPlayer(i, ScoreNames[i]) EXCEPT !.cards = hands[i],
                                                           !.tokens = tokens[i] ] ],
      !.hostId = 1 ]

\* the hands test_game.js crafts: A holds 3,4,5,10 and 2 tokens, B holds 7,9 and none
TestGames ==
  { EndedGame(<<a, b>>, <<2, 0>>) : a \in Orderings({3, 4, 5, 10}), b \in Orderings({7, 9}) }

EndedGames ==
  TestGames
    \cup { EndedGame(h, t) : h \in HandsOfTwo(TieCards), t \in [1..2 -> ScoreTokens] }
    \cup { EndedGame(h, t) : h \in HandsOfThree(TieCards), t \in [1..3 -> ScoreTokens] }

InitScore ==
  /\ game \in EndedGames
  /\ hist = NoHist
  /\ botTimers = <<>>
  /\ connected = { game.players[i].id : i \in 1..Len(game.players) }
  /\ nextBot = 0
  /\ last = NoCall
  /\ fired = NoFire

\* const scores = game.calculateScores(), as the handlers call it before handleGameEnd
Scores ==
  /\ last.op = "none"
  /\ last' = [op |-> "calculateScores", res |-> CalculateScores(game)]
  /\ UNCHANGED <<game, botTimers, connected, nextBot, hist, fired>>

NextScore == Scores

SpecScore == InitScore /\ [][NextScore]_vars

----------------------------------------------------------------------------
(* Bot: the decision policy of the emotion-based Bot class                   *)
(* (src/unnamed/part_006 and its later version, src/unnamed/part_007).       *)
(*                                                                           *)
(* The Bot object is the player object the Game holds, so a bot is a player  *)
(* record with two more fields, emotionalState and playerRelations.  Real    *)
(* numbers are kept in thousandths: an emotion of 0.64 is 640, a cost of     *)
(* 1.37 points is 1370, and a value of Math.random() is a member of 0..999.  *)
(* The decision is followed for a face-up card and a game state without      *)
(* removedCards, which is what getState() of game.js hands to makeDecision.  *)

\* the inner while of calculatePlayerScore: the last position of the run that
\* starts at position i of the ascending hand
RECURSIVE RunEnd(_, _)
RunEnd(sorted, i) ==
  IF i + 1 <= Len(sorted) /\ sorted[i + 1] = sorted[i] + 1 THEN RunEnd(sorted, i + 1)
  ELSE i

\* the outer while of calculatePlayerScore from position i on: the first card of
\* every run is added
RECURSIVE RunStartSum(_, _)
RunStartSum(sorted, i) ==
  IF i > Len(sorted) THEN 0
  ELSE sorted[i] + RunStartSum(sorted, RunEnd(sorted, i) + 1)

\* calculatePlayerScore(player): 0 for an empty hand, whatever the tokens
CalculatePlayerScore(player) ==
  IF Len(player.cards) = 0 THEN 0
  ELSE RunStartSum(SortAsc(player.cards), 1) - player.tokens

\* calculateCurrentScore(): the same count on the bot's own hand and tokens
CalculateCurrentScore(bot) ==
  IF Len(bot.cards) = 0 THEN 0
  ELSE RunStartSum(SortAsc(bot.cards), 1) - bot.tokens

Distance(a, b) == IF a < b THEN b - a ELSE a - b

\* hasDirectConnection(currentCard), hasIndirectConnection(currentCard)
HasDirectConnection(bot, currentCard) ==
  \E i \in 1..Len(bot.cards) : Distance(bot.cards[i], currentCard) = 1

HasIndirectConnection(bot, currentCard) ==
  \E i \in 1..Len(bot.cards) : Distance(bot.cards[i], currentCard) = 2

\* getConnectionBonus(currentCard) of part_006, in thousandths: the bot's current
\* score, tokens subtracted, less the score of the hand with the card and no token;
\* never negative; a held card two away adds min(savings * 0.1, card * 0.05)
GetConnectionBonusOfScore(bot, currentCard) ==
  IF currentCard = Null THEN 0
  ELSE
    LET currentPureCardScore == CalculateCurrentScore(bot)
        tempCards == Append(bot.cards, currentCard)
        newPureCardScore == CalculatePlayerScore([cards |-> tempCards, tokens |-> 0])
        connectionSavings == currentPureCardScore - newPureCardScore
        indirectBonus == Min2(connectionSavings * 100, currentCard * 50)
    IN IF HasIndirectConnection(bot, currentCard)
       THEN Max2(0, connectionSavings * 1000 + indirectBonus)
       ELSE Max2(0, connectionSavings * 1000)

\* getConnectionBonus(currentCard, removedCards = []) of part_007, in thousandths:
\* the card's value less what the hand's score, tokens left out, grows by taking it;
\* a held card two away adds min(savings * 0.1, card * 0.05)
GetConnectionBonus(bot, currentCard) ==
  IF currentCard = Null THEN 0
  ELSE
    LET tempCards == Append(bot.cards, currentCard)
        currentPureCardScore == CalculatePlayerScore([cards |-> bot.cards, tokens |-> 0])
        newPureCardScore == CalculatePlayerScore([cards |-> tempCards, tokens |-> 0])
        actualIncrease == newPureCardScore - currentPureCardScore
        connectionSavings == currentCard - actualIncrease
        indirectBonus == Min2(connectionSavings * 100, currentCard * 50)
    IN IF HasIndirectConnection(bot, currentCard)
       THEN Max2(0, connectionSavings * 1000 + indirectBonus)
       ELSE Max2(0, connectionSavings * 1000)

\* calculateRealCost(currentCard, pileTokens), in thousandths
CalculateRealCost(bot, currentCard, pileTokens) ==
  currentCard * 1000 - GetConnectionBonus(bot, currentCard) - pileTokens * 1000

\* initializeTendency(difficulty), in thousandths; any other difficulty is medium
InitializeTendency(difficulty) ==
  IF difficulty = "hard"
  THEN [riskTolerance |-> 700, emotionalIntensity |-> 600, randomness |-> 250]
  ELSE IF difficulty = "expert"
  THEN [riskTolerance |-> 800, emotionalIntensity |-> 800, randomness |-> 350]
  ELSE [riskTolerance |-> 500, emotionalIntensity |-> 300, randomness |-> 150]

\* the base of the loss a bot accepts, by difficulty (executeStrategy and
\* executeBlockingStrategy)
BaseMaxLoss(difficulty) ==
  IF difficulty = "medium" THEN 6 ELSE IF difficulty = "hard" THEN 8 ELSE 12

----------------------------------------------------------------------------
(* Bot: what it remembers of the other players *)

\* Array.prototype.slice(-n)
LastOf(s, n) == IF Len(s) <= n THEN s ELSE SubSeq(s, Len(s) - n + 1, Len(s))

\* observedPatterns.filter(action => action.type === 'take'), order kept
RECURSIVE TakesOf(_)
TakesOf(patterns) ==
  IF patterns = <<>> THEN <<>>
  ELSE IF Head(patterns).type = "take" THEN <<Head(patterns)>> \o TakesOf(Tail(patterns))
       ELSE TakesOf(Tail(patterns))

RECURSIVE CardSum(_)
CardSum(actions) ==
  IF actions = <<>> THEN 0 ELSE Head(actions).card + CardSum(Tail(actions))

\* this.playerRelations[id]?.observedPatterns || []
ObservedPatterns(bot, id) ==
  IF id \in DOMAIN bot.playerRelations THEN bot.playerRelations[id].observedPatterns
  ELSE <<>>

\* analyzeOpponentPattern(opponentId).isAggressive: of the last three observed
\* actions more than 70% are takes, or the cards taken average above 20
AnalyzeOpponentPattern(bot, opponentId) ==
  LET patterns == ObservedPatterns(bot, opponentId)
      recentActions == LastOf(patterns, 3)
      takes == TakesOf(recentActions)
      takeCount == Len(takes)
  IN IF Len(patterns) < 2 THEN FALSE
     ELSE \/ takeCount * 10 > 7 * Len(recentActions)
          \/ takeCount > 0 /\ CardSum(takes) > 20 * takeCount

\* estimateHumanPlayerWant(player, currentCard) on a scale 0..3, `draw` being the
\* value Math.random() returns when it is asked
EstimateHumanPlayerWant(bot, player, currentCard, draw) ==
  IF player.isBot THEN 0
  ELSE
    LET recentTakes == LastOf(TakesOf(ObservedPatterns(bot, player.id)), 5)
        n == Len(recentTakes)
        direct == \E i \in 1..n : Distance(recentTakes[i].card, currentCard) = 1
        indirect == \E i \in 1..n : Distance(recentTakes[i].card, currentCard) = 2
        similar == Cardinality({i \in 1..n : Distance(recentTakes[i].card, currentCard) <= 4})
        observed == IF indirect THEN 2 ELSE IF similar >= 2 THEN 1 ELSE 0
    IN IF direct THEN 3
       ELSE IF observed # 0 THEN observed
       ELSE IF currentCard <= 10 THEN 1
       ELSE IF currentCard <= 20 THEN (IF draw < 300 THEN 1 ELSE 0)
       ELSE (IF draw < 100 THEN 1 ELSE 0)

\* wouldPlayerWantCard(player, currentCard) of part_007: a bot whose cards are
\* given is judged on them, anyone else by estimateHumanPlayerWant
WouldPlayerWantCard(bot, player, currentCard, draw) ==
  IF player.isBot /\ "cards" \in DOMAIN player
  THEN IF \E i \in 1..Len(player.cards) : Distance(player.cards[i], currentCard) = 1
       THEN TRUE
       ELSE IF \E i \in 1..Len(player.cards) : Distance(player.cards[i], currentCard) = 2
       THEN draw < 600
       ELSE IF currentCard <= 12 THEN draw < 400
       ELSE draw < 200
  ELSE EstimateHumanPlayerWant(bot, player, currentCard, draw) > 0

\* findVengefulTarget(players): the position of the first player whose rivalry
\* is above 0.5, 0 when there is none
FindVengefulTarget(bot, players) ==
  LET rivals == { i \in 1..Len(players) :
                    /\ players[i].id \in DOMAIN bot.playerRelations
                    /\ bot.playerRelations[players[i].id].rivalry > 500 }
  IN IF rivals = {} THEN 0 ELSE CHOOSE i \in rivals : \A j \in rivals : i <= j

\* findAllies(players): the positions of the players trusted above 0.7
FindAllies(bot, players) ==
  { i \in 1..Len(players) :
      /\ players[i].id \in DOMAIN bot.playerRelations
      /\ bot.playerRelations[players[i].id].trust > 700 }

\* isCurrentlyLeading(players)
IsCurrentlyLeading(bot, players) ==
  \A i \in 1..Len(players) :
    players[i].id = bot.id \/ CalculatePlayerScore(players[i]) >= CalculateCurrentScore(bot)

----------------------------------------------------------------------------
(* Bot: analysis of the game situation *)

\* the score entries of analyzeGameSituation, sorted by ascending score
RECURSIVE SortScores(_)
SortScores(scores) ==
  IF scores = <<>> THEN <<>>
  ELSE InsertResult(scores[Len(scores)], SortScores(SubSeq(scores, 1, Len(scores) - 1)))

RECURSIVE TokenSum(_)
TokenSum(entries) ==
  IF entries = <<>> THEN 0 ELSE Head(entries).tokens + TokenSum(Tail(entries))

\* the risk score analyzeOpponents gives one opponent, in thousandths; the game
\* progress is cardsDealt / cardsInPlay
RiskScore(bot, opponent, scores, myScore, cardsDealt, cardsInPlay) ==
  LET n == Len(scores)
      sum == TokenSum(scores)
      rankRisk == IF opponent.score <= scores[1].score THEN 30
                  ELSE IF opponent.score - scores[1].score <= 3 THEN 20
                  ELSE 0
      scoreDiff == opponent.score - myScore
      diffRisk == IF scoreDiff < -8 THEN 25
                  ELSE IF scoreDiff < -3 THEN 15
                  ELSE IF scoreDiff > 0 /\ scoreDiff <= 5 THEN 10
                  ELSE 0
      tokenRisk == IF opponent.tokens * n > sum + 3 * n THEN 15 ELSE 0
      base == rankRisk + diffRisk + tokenRisk
      staged == IF cardsDealt * 10 > 7 * cardsInPlay THEN base * 1300
                ELSE IF cardsDealt * 10 < 3 * cardsInPlay
                THEN (base + (IF opponent.tokens * n > sum + 2 * n THEN 10 ELSE 0)) * 1000
                ELSE base * 1000
  IN staged + (IF AnalyzeOpponentPattern(bot, opponent.id) THEN 10000 ELSE 0)

\* analyzeOpponents(scores, gameProgress): the opponents with their risk, and the
\* primary threat, the first opponent of the highest risk when that is 25 or more
PrimaryThreat(scores, risk, top) ==
  LET hasThreat == top # 0 /\ risk[top] >= 25000
  IN [ shouldUseBlockingStrategy |-> hasThreat,
       primaryThreat |->
         IF hasThreat
         THEN [ id |-> scores[top].id, nickname |-> scores[top].nickname,
                score |-> scores[top].score, tokens |-> scores[top].tokens,
                isBot |-> scores[top].isBot, riskScore |-> risk[top],
                riskLevel |-> IF risk[top] >= 50000 THEN "critical"
                              ELSE IF risk[top] >= 30000 THEN "high"
                              ELSE "medium" ]
         ELSE [ id |-> Null ],
       blockingIntensity |-> IF hasThreat THEN Min2(risk[top] \div 50, 1000) ELSE 0 ]

\* opponentRisks.sort((a, b) => b.riskScore - a.riskScore)[0]: the place in scores of
\* the first opponent of the highest risk, 0 when there is no opponent
HighestRisk(bot, scores, risk) ==
  LET opponents == { i \in 1..Len(scores) : scores[i].id # bot.id }
  IN IF opponents = {} THEN 0
     ELSE CHOOSE i \in opponents :
            \A j \in opponents : risk[j] < risk[i] \/ (risk[j] = risk[i] /\ i <= j)

AnalyzeOpponents(bot, scores, cardsDealt, cardsInPlay) ==
  LET me == CHOOSE i \in 1..Len(scores) : scores[i].id = bot.id
      myScore == scores[me].score
      risk == [ i \in 1..Len(scores) |->
                  RiskScore(bot, scores[i], scores, myScore, cardsDealt, cardsInPlay) ]
  IN PrimaryThreat(scores, risk, HighestRisk(bot, scores, risk))

\* analyzeGameSituation(gameState).  scores.find(s => s.id === this.id).score
\* throws when the bot is not among the players: threw tells it
AnalyzeGameSituation(bot, gameState) ==
  LET players == gameState.players
      cardsInPlay == NumCards - gameState.removedCount
      cardsDealt == cardsInPlay - gameState.deckSize
      scores == SortScores([ i \in 1..Len(players) |->
                  [ id |-> players[i].id, nickname |-> players[i].nickname,
                    score |-> CalculatePlayerScore(players[i]),
                    tokens |-> players[i].tokens, isBot |-> players[i].isBot ] ])
      n == Len(scores)
  IN IF ~\E i \in 1..n : scores[i].id = bot.id
     THEN [ threw |-> TRUE ]
     ELSE
       LET myRank == CHOOSE i \in 1..n :
                       scores[i].id = bot.id /\ \A j \in 1..(i - 1) : scores[j].id # bot.id
           myScore == scores[myRank].score
           pointsFromLead == myScore - scores[1].score
       IN [ threw |-> FALSE,
            cardsDealt |-> cardsDealt,
            cardsInPlay |-> cardsInPlay,
            myRank |-> myRank,
            totalPlayers |-> n,
            pointsFromLead |-> pointsFromLead,
            pointsFromLast |-> scores[n].score - myScore,
            \* tokenAdvantage times the number of players
            tokenAdvantage |-> bot.tokens * Len(players) - TokenSum(players),
            isLeading |-> myRank = 1,
            isLastPlace |-> myRank = n,
            isCloseGame |-> pointsFromLead <= 5 /\ pointsFromLead >= -5,
            opponentAnalysis |-> AnalyzeOpponents(bot, scores, cardsDealt, cardsInPlay),
            players |-> players ]

----------------------------------------------------------------------------
(* Bot: the strategy and the basic decision.  A strategy carries its name and *)
(* its three weights in thousandths; the names are the English of the source's *)
(* Korean ones.  A reason is the kind of the source's reason text and the name *)
(* of the strategy the text quotes ("" when it quotes none).                  *)

CeilDiv(a, b) == (a + b - 1) \div b

Strategy(name, riskTolerance, chipValue, connectionBonus) ==
  [ name |-> name, riskTolerance |-> riskTolerance, chipValue |-> chipValue,
    connectionBonus |-> connectionBonus, isBlocking |-> FALSE, buildupMode |-> FALSE,
    blockingIntensity |-> 0 ]

\* getDefaultStrategy()
GetDefaultStrategy == Strategy("default_safe", 300, 1000, 1000)

\* selectStrategy(situation, currentCard, pileTokens, realCost) of part_007
SelectStrategy(bot, situation, currentCard, draws) ==
  LET dealt == situation.cardsDealt
      inPlay == situation.cardsInPlay
      n == situation.totalPlayers
      myRank == situation.myRank
      lead == situation.pointsFromLead
      adv == situation.tokenAdvantage
      analysis == situation.opponentAnalysis
  IN
  IF /\ analysis.shouldUseBlockingStrategy
     /\ WouldPlayerWantCard(bot, analysis.primaryThreat, currentCard, draws.threat)
     /\ dealt * 10 > 4 * inPlay
  THEN [ Strategy("blocking", 700 + (analysis.blockingIntensity * 8) \div 10, 800, 1000)
           EXCEPT !.isBlocking = TRUE, !.blockingIntensity = analysis.blockingIntensity ]
  ELSE IF dealt * 10 < 3 * inPlay
  THEN IF myRank >= CeilDiv(7 * n, 10) THEN Strategy("early_escape_last", 1000, 1500, 1400)
       ELSE IF adv < -3 * n THEN Strategy("early_chip_farming", 800, 2000, 1000)
       ELSE IF Len(bot.cards) <= 1
       THEN [ Strategy("early_buildup", 900, 1400, 1500) EXCEPT !.buildupMode = TRUE ]
       ELSE Strategy("early_selective", 600, 1300, 1300)
  ELSE IF dealt * 10 >= 7 * inPlay
  THEN IF situation.isLastPlace /\ situation.pointsFromLast > 8
       THEN Strategy("late_desperate_gamble", 2500, 600, 800)
       ELSE IF situation.isLastPlace /\ situation.pointsFromLast > 3
       THEN Strategy("late_escape_last", 1500, 800, 1200)
       ELSE IF situation.isLeading /\ lead < -5
       THEN Strategy("late_first_secured", 200, 1500, 1200)
       ELSE IF myRank = 1 \/ lead <= 3 THEN Strategy("late_first_contest", 700, 1100, 1300)
       ELSE IF ~situation.isLeading /\ lead <= 8
       THEN Strategy("late_first_chase", 1300, 800, 1400)
       ELSE Strategy("late_keep_rank", 700, 1000, 1200)
  ELSE IF myRank >= CeilDiv(8 * n, 10) THEN Strategy("mid_last_danger", 1200, 900, 1300)
  ELSE IF situation.isLeading
  THEN IF lead < -3 THEN Strategy("mid_first_kept", 400, 1300, 1100)
       ELSE Strategy("mid_first_uneasy", 500, 1200, 1200)
  ELSE IF myRank <= 3 /\ lead <= 5
  THEN IF adv > 2 * n THEN Strategy("mid_first_challenge_chips", 900, 800, 1300)
       ELSE Strategy("mid_first_challenge", 700, 1100, 1200)
  ELSE IF myRank >= CeilDiv(4 * n, 10) THEN Strategy("mid_chase", 1000, 900, 1300)
  ELSE IF adv < -2 * n THEN Strategy("mid_chip_saving", 200, 1500, 1000)
  ELSE Strategy("mid_balanced", 500, 1000, 1100)

Reason(kind, strategyName) == [ kind |-> kind, strategy |-> strategyName ]

\* what analyzeCardCompetition finds for the opponent at position i:
\* [wantLevel, benefit]
OpponentWant(bot, players, i, currentCard, draws) ==
  LET opponent == players[i]
      wantLevel == EstimateHumanPlayerWant(bot, opponent, currentCard, draws.compete[i])
  IN IF opponent.isBot
     THEN IF \E k \in 1..Len(opponent.cards) : Distance(opponent.cards[k], currentCard) = 1
          THEN [wantLevel |-> 3, benefit |-> 5]
          ELSE IF \E k \in 1..Len(opponent.cards) : Distance(opponent.cards[k], currentCard) = 2
          THEN [wantLevel |-> 2, benefit |-> 2]
          ELSE IF currentCard <= 15 THEN [wantLevel |-> 1, benefit |-> 1]
          ELSE [wantLevel |-> 0, benefit |-> 0]
     ELSE IF wantLevel > 0 THEN [wantLevel |-> wantLevel, benefit |-> wantLevel + 1]
          ELSE [wantLevel |-> 0, benefit |-> 0]

\* analyzeCardCompetition(currentCard, players)
CompetitionAmong(bot, currentCard, opponents, want) ==
  LET myConnectionValue == IF HasDirectConnection(bot, currentCard) THEN 3
                           ELSE IF HasIndirectConnection(bot, currentCard) THEN 1
                           ELSE 0
      totalCompetitors == Cardinality({ i \in opponents : want[i].wantLevel > 0 })
      competitionBonus ==
        IF myConnectionValue >= 3 /\ totalCompetitors > 0 THEN 8
        ELSE IF myConnectionValue >= 1 /\ \E i \in opponents : want[i].wantLevel >= 3 THEN 5
        ELSE IF totalCompetitors >= 2 THEN 3
        ELSE 0
  IN [ shouldForceTake |-> competitionBonus > 0,
       competitionBonus |-> competitionBonus,
       shouldAvoidTake |-> /\ myConnectionValue = 0
                           /\ \E i \in opponents : want[i].benefit >= 4
                           /\ currentCard >= 20 ]

AnalyzeCardCompetition(bot, currentCard, players, draws) ==
  LET opponents == { i \in 1..Len(players) : players[i].id # bot.id }
  IN CompetitionAmong(bot, currentCard, opponents,
                      [ i \in opponents |-> OpponentWant(bot, players, i, currentCard, draws) ])

\* analyzeFutureConnections(currentCard, cardAvailability), in thousandths, when no
\* card is known to be removed: every neighbour within 3..35 has risk 0
AnalyzeFutureConnections(currentCard) ==
  LET below == IF currentCard - 1 >= CardLo THEN currentCard - 1 ELSE 0
      above == IF currentCard + 1 <= CardHi THEN currentCard + 1 ELSE 0
      futureValue == (below + above) * 300
  IN IF currentCard >= 30 THEN (futureValue * 15) \div 10 ELSE futureValue

\* the want level calculateOpponentInterference gives the opponent at position i:
\* for a bot, by the first of its cards within two of the current card
InterferenceWant(bot, players, i, currentCard, draws) ==
  LET opponent == players[i]
      near == { k \in 1..Len(opponent.cards) : Distance(opponent.cards[k], currentCard) <= 2 }
      first == CHOOSE k \in near : \A j \in near : k <= j
  IN IF opponent.isBot
     THEN IF near = {} THEN 0
          ELSE IF Distance(opponent.cards[first], currentCard) = 1 THEN 3 ELSE 1
     ELSE EstimateHumanPlayerWant(bot, opponent, currentCard, draws.interfere[i])

\* calculateOpponentInterference(currentCard, players).isLowInterference
IsLowInterference(bot, currentCard, players, draws) ==
  LET opponents == { i \in 1..Len(players) : players[i].id # bot.id }
      want == [ i \in opponents |-> InterferenceWant(bot, players, i, currentCard, draws) ]
      interfering == { i \in opponents : want[i] > 0 }
  IN Cardinality(interfering) = 0
       \/ (Cardinality(interfering) = 1 /\ \A i \in interfering : want[i] <= 1)

NoDecision == [ action |-> "none", reason |-> Reason("none", "") ]

\* executeBuildupStrategy(...): a take, or NoDecision for the null it returns
ExecuteBuildupStrategy(bot, currentCard, strategicCost, strategicMaxLoss, situation, draws) ==
  IF currentCard <= 15 /\ strategicCost <= strategicMaxLoss + 6000
  THEN [ action |-> "take", reason |-> Reason("buildup_low_card", "") ]
  ELSE IF /\ currentCard >= 25
          /\ AnalyzeFutureConnections(currentCard) > 0
          /\ strategicCost <= strategicMaxLoss + AnalyzeFutureConnections(currentCard) + 3000
  THEN [ action |-> "take", reason |-> Reason("buildup_high_card", "") ]
  ELSE IF /\ IsLowInterference(bot, currentCard, situation.players, draws)
          /\ strategicCost <= strategicMaxLoss + 2000
  THEN [ action |-> "take", reason |-> Reason("buildup_low_interference", "") ]
  ELSE IF Len(bot.cards) = 0 /\ currentCard <= 28 /\ strategicCost <= strategicMaxLoss + 8000
  THEN [ action |-> "take", reason |-> Reason("buildup_urgent", "") ]
  ELSE NoDecision

\* executeBlockingStrategy(strategy, currentCard, pileTokens, realCost, situation)
ExecuteBlockingStrategy(bot, strategy, currentCard, pileTokens) ==
  LET blockingMaxLoss == BaseMaxLoss(bot.difficulty) * strategy.riskTolerance
                           + strategy.blockingIntensity * 10
      blockingCost == currentCard * 1000 - GetConnectionBonus(bot, currentCard)
                        - pileTokens * 1000
  IN IF blockingCost <= 0
     THEN [ action |-> "take", reason |-> Reason("blocking_gain", "") ]
     ELSE IF blockingCost <= blockingMaxLoss
     THEN [ action |-> "take", reason |-> Reason("blocking_done", "") ]
     ELSE [ action |-> "pass", reason |-> Reason("blocking_given_up", "") ]

\* executeStrategy(strategy, currentCard, pileTokens, realCost, situation) of part_007
ExecuteStrategyAmong(bot, strategy, currentCard, pileTokens, situation, draws, competitionAnalysis) ==
  LET strategicMaxLoss ==
        (BaseMaxLoss(bot.difficulty) * InitializeTendency(bot.difficulty).riskTolerance
           * strategy.riskTolerance) \div 1000
      strategicCost ==
        currentCard * 1000
          - (GetConnectionBonus(bot, currentCard) * strategy.connectionBonus) \div 1000
          - pileTokens * strategy.chipValue
      buildupDecision ==
        ExecuteBuildupStrategy(bot, currentCard, strategicCost, strategicMaxLoss, situation, draws)
  IN
  IF strategy.isBlocking THEN ExecuteBlockingStrategy(bot, strategy, currentCard, pileTokens)
  ELSE IF strategicCost <= 0
  THEN [ action |-> "take", reason |-> Reason("strategic_gain", strategy.name) ]
  ELSE IF /\ competitionAnalysis.shouldForceTake
          /\ strategicCost <= strategicMaxLoss + competitionAnalysis.competitionBonus * 1000
  THEN [ action |-> "take", reason |-> Reason("competition_block", "") ]
  ELSE IF competitionAnalysis.shouldAvoidTake
  THEN [ action |-> "pass", reason |-> Reason("opponent_benefit", "") ]
  ELSE IF pileTokens >= 8 /\ strategicCost <= strategicMaxLoss + Min2(pileTokens * 500, 8000)
  THEN [ action |-> "take", reason |-> Reason("high_chip_reward", "") ]
  ELSE IF /\ strategy.buildupMode
             \/ (situation.cardsDealt * 10 < 4 * situation.cardsInPlay /\ Len(bot.cards) <= 2)
          /\ buildupDecision.action # "none"
  THEN buildupDecision
  ELSE IF HasDirectConnection(bot, currentCard) /\ strategicCost <= strategicMaxLoss + 3000
  THEN [ action |-> "take", reason |-> Reason("strategic_direct_connection", strategy.name) ]
  ELSE IF HasIndirectConnection(bot, currentCard) /\ strategicCost <= strategicMaxLoss + 1000
  THEN [ action |-> "take", reason |-> Reason("strategic_indirect_connection", strategy.name) ]
  ELSE IF strategicCost <= strategicMaxLoss
  THEN [ action |-> "take", reason |-> Reason("strategic_within_limit", strategy.name) ]
  ELSE [ action |-> "pass", reason |-> Reason("strategic_refusal", strategy.name) ]

ExecuteStrategy(bot, strategy, currentCard, pileTokens, situation, draws) ==
  ExecuteStrategyAmong(bot, strategy, currentCard, pileTokens, situation, draws,
                       AnalyzeCardCompetition(bot, currentCard, situation.players, draws))

\* makeBasicDecision(currentCard, pileTokens, gameState): [action, reason, threw]
Returned(decision) ==
  [ action |-> decision.action, reason |-> decision.reason, threw |-> FALSE ]

\* makeBasicDecision from the strategy on: the game situation is `situation`
BasicDecisionIn(bot, gameState, draws, situation) ==
  IF situation.threw
  THEN [ action |-> "none", reason |-> Reason("none", ""), threw |-> TRUE ]
  ELSE Returned(ExecuteStrategy(bot,
                                SelectStrategy(bot, situation, gameState.currentCard, draws),
                                gameState.currentCard, gameState.pileTokens, situation, draws))

MakeBasicDecision(bot, gameState, draws) ==
  IF bot.tokens <= 0
  THEN [ action |-> "take", reason |-> Reason("no_tokens", ""), threw |-> FALSE ]
  ELSE BasicDecisionIn(bot, gameState, draws, AnalyzeGameSituation(bot, gameState))

----------------------------------------------------------------------------
(* Bot: the stages after the basic decision, and makeDecision *)

\* reason.includes(...) for the words the later stages look for: "blocking" is in
\* the three reasons of the blocking strategy, "strategic" in the five reasons of
\* executeStrategy that quote the strategy, the name of the desperate gamble in
\* those that quote that strategy; the other reasons hold none of the words
MentionsBlocking(reason) ==
  reason.kind \in {"blocking_gain", "blocking_done", "blocking_given_up"}

MentionsStrategic(reason) ==
  reason.kind \in {"strategic_gain", "strategic_direct_connection",
                   "strategic_indirect_connection", "strategic_within_limit",
                   "strategic_refusal"}

MentionsGamble(reason) == reason.strategy = "late_desperate_gamble"

IsStrategicDecision(reason) ==
  MentionsBlocking(reason) \/ MentionsStrategic(reason) \/ MentionsGamble(reason)

\* applyEmotionalFactors(basicDecision, currentCard, pileTokens, players, gameState):
\* the action it returns.  Every rule tests the action of the basic decision, so a
\* take becomes a pass when a rule for takes fires, a pass a take when one for passes does
ApplyEmotionalFactors(bot, basicDecision, gameState, draws) ==
  LET emotions == bot.emotionalState
      realCost == CalculateRealCost(bot, gameState.currentCard, gameState.pileTokens)
      target == FindVengefulTarget(bot, gameState.players)
      moodUp == /\ emotions.mood > 700
                /\ realCost > 0 /\ realCost <= 4000
                /\ draws.moodUp < Min2(300, emotions.mood - 700)
      moodDown == /\ emotions.mood < 300
                  /\ realCost > 1000 /\ realCost <= 6000
                  /\ draws.moodDown * 10 < Min2(2500, (300 - emotions.mood) * 8)
      confident == /\ emotions.confidence > 800
                   /\ realCost > 0 /\ realCost <= 3000
                   /\ draws.confident < Min2(200, emotions.confidence - 800)
      frustrated == /\ emotions.frustration > 600
                    /\ realCost > 0 /\ realCost <= 5000
                    /\ draws.frustrated * 100 < Min2(30000, (emotions.frustration - 600) * 75)
      competitive == /\ emotions.competitiveness > 800
                     /\ ~IsCurrentlyLeading(bot, gameState.players)
                     /\ realCost > 0 /\ realCost <= 8000
                     /\ draws.competitive * 100
                          < Min2(15000, (emotions.competitiveness - 800) * 75)
      greedy == /\ emotions.greed > 700
                /\ realCost > 0 /\ realCost <= 4000 /\ gameState.pileTokens >= 2
                /\ draws.greedy * 100 < Min2(20000, (emotions.greed - 700) * 67)
      revenge == /\ emotions.vengeful > 500
                 /\ target # 0
                 /\ WouldPlayerWantCard(bot, gameState.players[target], gameState.currentCard,
                                        draws.revengeWant)
                 /\ realCost > 0 /\ realCost <= 3000
                 /\ draws.revenge * 10 < Min2(1500, (emotions.vengeful - 500) * 3)
  IN IF MentionsBlocking(basicDecision.reason) THEN basicDecision.action
     ELSE IF basicDecision.action = "take"
     THEN (IF moodDown \/ frustrated THEN "pass" ELSE "take")
     ELSE (IF moodUp \/ confident \/ competitive \/ greedy \/ revenge THEN "take" ELSE "pass")

\* considerPlayerRelations(emotionalDecision, currentCard, players, gameState), the
\* decision having the reason `reason` and the action `action`: [action, threw]
RelationsIn(bot, action, gameState, draws, situation) ==
  LET threat == situation.opponentAnalysis.primaryThreat
      target == FindVengefulTarget(bot, gameState.players)
      allies == FindAllies(bot, gameState.players)
      hasImportantThreat == /\ situation.opponentAnalysis.shouldUseBlockingStrategy
                            /\ threat.riskLevel = "critical"
      afterRevenge ==
        IF /\ bot.emotionalState.vengeful > 700
           /\ target # 0
           /\ WouldPlayerWantCard(bot, gameState.players[target], gameState.currentCard,
                                  draws.socialRevengeWant)
           /\ action = "pass"
           /\ draws.socialRevenge < 300
        THEN "take" ELSE action
      wouldHelpAlly ==
        \E i \in allies :
          WouldPlayerWantCard(bot, gameState.players[i], gameState.currentCard,
                              draws.allyWant[i])
  IN IF situation.threw THEN [ action |-> "none", threw |-> TRUE ]
     ELSE IF /\ hasImportantThreat
             /\ WouldPlayerWantCard(bot, threat, gameState.currentCard, draws.socialThreat)
             /\ action = "pass"
     THEN [ action |-> "take", threw |-> FALSE ]
     ELSE IF allies # {} /\ afterRevenge = "take" /\ wouldHelpAlly /\ draws.allyYield < 150
     THEN [ action |-> "pass", threw |-> FALSE ]
     ELSE [ action |-> afterRevenge, threw |-> FALSE ]

ConsiderPlayerRelations(bot, reason, action, gameState, draws) ==
  IF IsStrategicDecision(reason) THEN [ action |-> action, threw |-> FALSE ]
  ELSE RelationsIn(bot, action, gameState, draws, AnalyzeGameSituation(bot, gameState))

Opposite(action) == IF action = "take" THEN "pass" ELSE "take"

\* addFinalRandomness(socialDecision, currentCard, pileTokens): the words of a
\* strategic decision are looked for in the reason of the basic decision, which
\* the stages before leave as it is
AddFinalRandomness(bot, reason, action, gameState, draws) ==
  LET realCost == CalculateRealCost(bot, gameState.currentCard, gameState.pileTokens)
  IN IF IsStrategicDecision(reason) THEN action
     ELSE IF realCost <= -1000 THEN action
     ELSE IF realCost >= 6000 THEN action
     ELSE IF draws.final * 10 < InitializeTendency(bot.difficulty).randomness
     THEN Opposite(action)
     ELSE action

\* Math.max(0, Math.min(1, x)) on thousandths
ZeroToOne(x) == Max2(0, Min2(1000, x))

\* `hundredths` of the bot's emotional intensity, in thousandths
Intensity(bot, hundredths) ==
  (InitializeTendency(bot.difficulty).emotionalIntensity * hundredths) \div 100

\* updateEmotionsAfterDecision(decision, currentCard, pileTokens): the emotional state
UpdateEmotionsAfterDecision(bot, decision, gameState) ==
  LET e == bot.emotionalState
      realCost == CalculateRealCost(bot, gameState.currentCard, gameState.pileTokens)
  IN IF decision = "take"
     THEN IF realCost <= 0
          THEN [ e EXCEPT !.mood = ZeroToOne(@ + Intensity(bot, 15)),
                          !.confidence = ZeroToOne(@ + Intensity(bot, 10)),
                          !.greed = ZeroToOne(@ + Intensity(bot, 5)) ]
          ELSE IF realCost <= 3000
          THEN [ e EXCEPT !.mood = ZeroToOne(@ + Intensity(bot, 5)),
                          !.confidence = ZeroToOne(@ + Intensity(bot, 3)) ]
          ELSE IF realCost <= 8000
          THEN [ e EXCEPT !.confidence = ZeroToOne(@ - Intensity(bot, 2)) ]
          ELSE [ e EXCEPT !.mood = ZeroToOne(@ - Intensity(bot, 10)),
                          !.frustration = ZeroToOne(@ + Intensity(bot, 15)),
                          !.confidence = ZeroToOne(@ - Intensity(bot, 5)) ]
     ELSE IF realCost > 5000
          THEN [ e EXCEPT !.confidence = ZeroToOne(@ + Intensity(bot, 3)) ]
          ELSE IF realCost <= 0
          THEN [ e EXCEPT !.frustration = ZeroToOne(@ + Intensity(bot, 5)) ]
          ELSE [ e EXCEPT !.confidence = ZeroToOne(@ - Intensity(bot, 1)) ]

\* the relation a bot starts with towards a player it meets
NewRelation == [ rivalry |-> 0, trust |-> 500, observedPatterns |-> <<>> ]

\* learnFromSituation(currentCard, pileTokens, players, myDecision): the relations;
\* the record it adds to gameEvents is read by no decision and is left out
LearnFromSituation(bot, players) ==
  LET humans == { players[i].id : i \in { k \in 1..Len(players) :
                                            players[k].id # bot.id /\ ~players[k].isBot } }
  IN [ id \in DOMAIN bot.playerRelations \cup humans |->
         IF id \in DOMAIN bot.playerRelations THEN bot.playerRelations[id] ELSE NewRelation ]

\* the input test of makeDecision: the card (and with it the pile) is a number
UsableInput(gameState) == gameState.currentCard # Null

\* makeDecision(gameState), `draws` being the values Math.random() returns at the
\* places it is asked: [decision, bot], the bot as the call leaves it
\* the catch of makeDecision: return this.tokens > 0 ? 'pass' : 'take'
SafeFallback(bot) ==
  [ decision |-> IF bot.tokens > 0 THEN "pass" ELSE "take", bot |-> bot ]

\* step 5 of makeDecision and its return: the final decision, the bot after it
FinalDecision(bot, gameState, final) ==
  [ decision |-> final,
    bot |-> [ bot EXCEPT
                !.emotionalState = UpdateEmotionsAfterDecision(bot, final, gameState),
                !.playerRelations = LearnFromSituation(bot, gameState.players) ] ]

\* step 4 of makeDecision on the social decision
AfterSocialDecision(bot, gameState, draws, basic, social) ==
  IF social.threw THEN SafeFallback(bot)
  ELSE FinalDecision(bot, gameState,
                     AddFinalRandomness(bot, basic.reason, social.action, gameState, draws))

\* steps 2 and 3 of makeDecision on the basic decision
AfterBasicDecision(bot, gameState, draws, basic) ==
  IF basic.threw THEN SafeFallback(bot)
  ELSE AfterSocialDecision(bot, gameState, draws, basic,
         ConsiderPlayerRelations(bot, basic.reason,
                                 ApplyEmotionalFactors(bot, basic, gameState, draws),
                                 gameState, draws))

MakeDecision(bot, gameState, draws) ==
  IF ~UsableInput(gameState) THEN [ decision |-> "pass", bot |-> bot ]
  ELSE AfterBasicDecision(bot, gameState, draws, MakeBasicDecision(bot, gameState, draws))

\* reactToEvent(eventType, details): the bot after it
ReactToEvent(bot, eventType, playerId) ==
  LET e == bot.emotionalState
      known == playerId \in DOMAIN bot.playerRelations
      relation == IF known THEN bot.playerRelations[playerId]
                  ELSE NewRelation
  IN IF eventType = "someone_took_my_card"
     THEN [ bot EXCEPT
              !.emotionalState =
                 [ e EXCEPT !.vengeful = ZeroToOne(@ + Intensity(bot, 30)),
                            !.frustration = ZeroToOne(@ + Intensity(bot, 20)) ],
              !.playerRelations =
                 IF playerId = Null THEN bot.playerRelations
                 ELSE [ id \in DOMAIN bot.playerRelations \cup {playerId} |->
                          IF id = playerId
                          THEN [ relation EXCEPT !.rivalry = Min2(1000, @ + 200) ]
                          ELSE bot.playerRelations[id] ] ]
     ELSE IF eventType = "got_overtaken"
     THEN [ bot EXCEPT !.emotionalState =
              [ e EXCEPT !.competitiveness = ZeroToOne(@ + Intensity(bot, 20)),
                         !.frustration = ZeroToOne(@ + Intensity(bot, 15)) ] ]
     ELSE IF eventType = "consecutive_bad_cards"
     THEN [ bot EXCEPT !.emotionalState =
              [ e EXCEPT !.confidence = ZeroToOne(@ - Intensity(bot, 20)),
                         !.mood = ZeroToOne(@ - Intensity(bot, 15)) ] ]
     ELSE IF eventType = "winning_streak"
     THEN [ bot EXCEPT !.emotionalState =
              [ e EXCEPT !.confidence = ZeroToOne(@ + Intensity(bot, 20)),
                         !.mood = ZeroToOne(@ + Intensity(bot, 15)),
                         !.greed = ZeroToOne(@ + Intensity(bot, 10)) ] ]
     ELSE bot

\* observePlayerAction(playerId, action, card, tokens): the bot after it (no more
\* than twenty patterns are ever kept; fewer are observed here)
ObservePlayerAction(bot, playerId, action, card) ==
  LET relation == IF playerId \in DOMAIN bot.playerRelations
                  THEN bot.playerRelations[playerId] ELSE NewRelation
  IN [ bot EXCEPT !.playerRelations =
         [ id \in DOMAIN bot.playerRelations \cup {playerId} |->
             IF id = playerId
             THEN [ relation EXCEPT
                      !.observedPatterns = Append(@, [type |-> action, card |-> card]) ]
             ELSE bot.playerRelations[id] ] ]

----------------------------------------------------------------------------
(* The decision policy applied: games in which a bot is to decide *)

\* the ids of the bot that decides, of another bot and of a human player
PolicyIds == [ deciding |-> 101, rival |-> 102, human |-> 1 ]

\* the bot as new Bot(id, nickname, difficulty) makes it, the emotions the
\* constructor draws being at the middle of their ranges
FreshBot(id, nickname, difficulty) ==
  [ id |-> id, nickname |-> nickname, tokens |-> 0, cards |-> <<>>, isBot |-> TRUE,
    difficulty |-> difficulty,
    emotionalState |-> [ mood |-> 500, confidence |-> 500, competitiveness |-> 500,
                         frustration |-> 0, greed |-> 500, vengeful |-> 0 ],
    playerRelations |-> << >> ]

\* reactToEvent(eventType, {playerId}) n times
RECURSIVE ReactTimes(_, _, _, _)
ReactTimes(bot, eventType, playerId, n) ==
  IF n = 0 THEN bot
  ELSE CHOOSE after \in { ReactToEvent(before, eventType, playerId) :
                            before \in {ReactTimes(bot, eventType, playerId, n - 1)} } : TRUE

\* observePlayerAction(playerId, 'take', card, 0) for the cards of `hand` in order
RECURSIVE ObserveTakes(_, _, _)
ObserveTakes(bot, playerId, hand) ==
  IF hand = <<>> THEN bot
  ELSE CHOOSE after \in { ObservePlayerAction(before, playerId, "take", hand[Len(hand)]) :
                            before \in {ObserveTakes(bot, playerId,
                                                      SubSeq(hand, 1, Len(hand) - 1))} } : TRUE

Minds == {"fresh", "troubled", "elated"}

\* the bot after the events of a round that went badly (the human took its cards,
\* bad cards came in a row) or well (winning streaks, overtaken once)
InMind(bot, mind) ==
  IF mind = "troubled"
  THEN ReactTimes(ReactTimes(bot, "someone_took_my_card", PolicyIds.human, 12),
                  "consecutive_bad_cards", Null, 6)
  ELSE IF mind = "elated"
  THEN ReactTimes(ReactTimes(bot, "winning_streak", Null, 6), "got_overtaken", Null, 4)
  ELSE bot

PolicyDifficulties == {"medium", "expert"}
DecidingHands == {<<>>, <<30>>, <<11>>, <<12, 11>>, <<9, 11>>}
DecidingTokens == {0, 3}
HumanHands == {<<>>, <<19>>}
RivalHands == {<<21>>}
OpponentTokens == {1, 8}
PolicyCards == {10, 20}
PolicyPiles == {0, 9, 22}
PolicyRemoved == {9, 28}

\* the members of a set of numbers, ascending
Ascending(S) ==
  [ i \in 1..Cardinality(S) |-> CHOOSE x \in S : Cardinality({ y \in S : y < x }) = i - 1 ]

SetOf(s) == { s[i] : i \in 1..Len(s) }

\* the values Math.random() returns at the places makeDecision asks for one: 0 at
\* the places of `low`, 0.999 at the others
DrawSites ==
  { "moodUp", "moodDown", "confident", "frustrated", "competitive", "greedy", "revenge",
    "revengeWant", "threat", "compete", "interfere", "socialThreat", "socialRevengeWant",
    "socialRevenge", "allyWant", "allyYield", "final" }

DrawAt(low, site) == IF site \in low THEN 0 ELSE 999

DrawsWith(low) ==
  [ moodUp |-> DrawAt(low, "moodUp"), moodDown |-> DrawAt(low, "moodDown"),
    confident |-> DrawAt(low, "confident"), frustrated |-> DrawAt(low, "frustrated"),
    competitive |-> DrawAt(low, "competitive"), greedy |-> DrawAt(low, "greedy"),
    revenge |-> DrawAt(low, "revenge"), revengeWant |-> DrawAt(low, "revengeWant"),
    threat |-> DrawAt(low, "threat"),
    compete |-> [ i \in 1..MaxPlayers |-> DrawAt(low, "compete") ],
    interfere |-> [ i \in 1..MaxPlayers |-> DrawAt(low, "interfere") ],
    socialThreat |-> DrawAt(low, "socialThreat"),
    socialRevengeWant |-> DrawAt(low, "socialRevengeWant"),
    socialRevenge |-> DrawAt(low, "socialRevenge"),
    allyWant |-> [ i \in 1..MaxPlayers |-> DrawAt(low, "allyWant") ],
    allyYield |-> DrawAt(low, "allyYield"), final |-> DrawAt(low, "final") ]

\* no draw low, one draw low, every draw low
DrawChoices ==
  { DrawsWith({}), DrawsWith(DrawSites) } \cup { DrawsWith({site}) : site \in DrawSites }

\* a human player and a rival bot as the Game holds them
HumanPlayer(hand, tokens) ==
  [ NewPlayer(PolicyIds.human, "A") EXCEPT !.cards = hand, !.tokens = tokens ]

RivalBot(hand, tokens) ==
  [ FreshBot(PolicyIds.rival, "AI2m", "medium") EXCEPT !.cards = hand, !.tokens = tokens ]

\* the bot that decides: it has seen the human take the cards the human holds
DecidingBot(difficulty, mind, hand, tokens, humanHand) ==
  [ ObserveTakes(InMind(FreshBot(PolicyIds.deciding, "AI1x", difficulty), mind),
                 PolicyIds.human, humanHand)
      EXCEPT !.cards = hand, !.tokens = tokens ]

\* the opponents' seats: the human, the rival bot, or both
OpponentSeats ==
  { <<HumanPlayer(h, t)>> : h \in HumanHands, t \in OpponentTokens }
    \cup { <<RivalBot(h, t)>> : h \in RivalHands, t \in OpponentTokens }
    \cup { <<HumanPlayer(h, t), RivalBot(hr, tr)>> :
             h \in HumanHands, t \in OpponentTokens, hr \in RivalHands, tr \in OpponentTokens }

RECURSIVE CardsHeldIn(_)
CardsHeldIn(players) ==
  IF players = <<>> THEN {} ELSE SetOf(Head(players).cards) \cup CardsHeldIn(Tail(players))

\* a started Game in which `players` hold their cards, `currentCard` is face up with
\* `pileTokens` on it, and `removedCount` cards were removed; the tokens in the game
\* are the initialTokens of every player
PolicyGame(players, currentCard, pileTokens, removedCount, show) ==
  LET rest == Ascending((CardLo..CardHi) \ (CardsHeldIn(players) \cup {currentCard}))
  IN [ GameReset EXCEPT
         !.players = players,
         !.removedCards = SubSeq(rest, 1, removedCount),
         !.deck = SubSeq(rest, removedCount + 1, Len(rest)),
         !.currentCard = currentCard,
         !.pileTokens = pileTokens,
         !.started = TRUE,
         !.hostId = PolicyIds.human,
         !.gameSettings = [ DefaultSettings EXCEPT
                              !.removedCount = removedCount,
                              !.initialTokens = (TokenSum(players) + pileTokens) \div Len(players),
                              !.showOpponentTokens = show ] ]

\* the tokens of a game are shared out of an initialTokens within 1..50
TokensAddUp(players, pileTokens) ==
  /\ (TokenSum(players) + pileTokens) % Len(players) = 0
  /\ (TokenSum(players) + pileTokens) \div Len(players) \in 1..50

InitPolicy ==
  /\ game \in
       { g \in { PolicyGame(<<DecidingBot(d, m, hand, tokens, opponents[1].cards)>> \o opponents,
                            card, pile, removed, show) :
                   d \in PolicyDifficulties, m \in Minds, hand \in DecidingHands,
                   tokens \in DecidingTokens, opponents \in OpponentSeats, card \in PolicyCards,
                   pile \in PolicyPiles, removed \in PolicyRemoved, show \in BOOLEAN } :
           TokensAddUp(g.players, g.pileTokens) }
  /\ hist = NoHist
  /\ botTimers = <<>>
  /\ connected = {PolicyIds.human}
  /\ nextBot = 0
  /\ last = NoCall
  /\ fired = NoFire

\* the game states makeDecision is given: getState() of the game; the same state
\* showing no card, as getState() does outside a round; the same state from which
\* the bot itself is missing
PolicyInputs == {"getState", "no_card", "without_me"}

GameStateFor(g, input) ==
  LET state == GetState(g)
  IN IF input = "no_card" THEN [ state EXCEPT !.currentCard = Null ]
     ELSE IF input = "without_me" THEN [ state EXCEPT !.players = Tail(@) ]
     ELSE state

\* const action = currentPlayer.makeDecision(game.getState()) of handleBotTurn, and
\* makeDecision called on the other game states (there with no draw low)
Decide ==
  /\ last.op = "none"
  /\ \E input \in PolicyInputs :
     \E draws \in { d \in DrawChoices : input = "getState" \/ d = DrawsWith({}) } :
     \E made \in { MakeDecision(Current(game), GameStateFor(game, input), draws) } :
          /\ last' = [ op |-> "makeDecision", res |-> made.decision, input |-> input,
                       draws |-> draws ]
          /\ game' = [ game EXCEPT !.players[game.currentPlayerIndex + 1] = made.bot ]
  /\ UNCHANGED <<botTimers, connected, nextBot, hist, fired>>

NextPolicy == Decide

SpecPolicy == InitPolicy /\ [][NextPolicy]_vars

----------------------------------------------------------------------------
(* The style-based Bot class of src/server/bot.js: what its makeDecision     *)
(* calls for the play style the constructor drew.                            *)

\* selectPlayStyle(difficulty): the styles Math.random() chooses among
SelectPlayStyle(difficulty) ==
  IF difficulty = "hard"
  THEN {"balanced", "aggressive", "defensive", "psychological", "adaptive", "token_farmer"}
  ELSE IF difficulty = "expert"
  THEN {"masterful", "manipulative", "game_theory", "perfect_information", "meta_adaptive",
        "hybrid"}
  ELSE {"conservative", "greedy", "sequence_focused", "random"}

\* estimateGameProgress(players) with the gameInfo makeDecision has just stored:
\* cardsPlayed / actualPlayableCards, kept as the two numbers
EstimateGameProgress(gameState) ==
  LET totalRemovedCards == IF gameState.removedCount = 0 THEN 9 ELSE gameState.removedCount
      actualPlayableCards == NumCards - totalRemovedCards
  IN [ cardsPlayed |-> actualPlayableCards - gameState.deckSize,
       actualPlayableCards |-> actualPlayableCards ]

\* the methods of the class that case 'masterful' of applyPlayStyleStrategy can call
\* and the class defines
DefinedPhaseStrategies == {"evaluateEarlyGameStrategy"}

\* case 'masterful' of applyPlayStyleStrategy: the method called for the game phase
MasterfulPhaseStrategy(gameState) ==
  LET gamePhase == EstimateGameProgress(gameState)
  IN IF gamePhase.cardsPlayed * 10 < 3 * gamePhase.actualPlayableCards
     THEN "evaluateEarlyGameStrategy"
     ELSE IF gamePhase.cardsPlayed * 10 > 7 * gamePhase.actualPlayableCards
     THEN "evaluateEndGameStrategy"
     ELSE "none"

\* applyPlayStyleStrategy(...) throws a TypeError: the style calls a method the class
\* does not define (makeDecision has no try/catch and passes the error on)
ApplyPlayStyleStrategyThrows(playStyle, gameState) ==
  /\ playStyle = "masterful"
  /\ MasterfulPhaseStrategy(gameState) \notin DefinedPhaseStrategies \cup {"none"}

----------------------------------------------------------------------------
(* Properties *)

RECURSIVE HeldCount(_)
HeldCount(players) ==
  IF players = <<>> THEN 0 ELSE Len(Head(players).cards) + HeldCount(Tail(players))

\* cards in hands + deck + removed set + the face-up card
Total(g) ==
  HeldCount(g.players) + Len(g.deck) + Len(g.removedCards)
    + (IF g.currentCard # Null THEN 1 ELSE 0)

\* the players of g that g2 no longer has
Leavers(g, g2) ==
  SelectSeq(g.players,
            LAMBDA p : \A i \in 1..Len(g2.players) : g2.players[i].nickname # p.nickname)

HeldCards(players) ==
  UNION { { players[i].cards[k] : k \in 1..Len(players[i].cards) } : i \in 1..Len(players) }

SeqRange(q) == { q[i] : i \in 1..Len(q) }

\* every player of g2 other than position c is as in g
OthersUnchanged(g, g2, c) ==
  /\ Len(g2.players) = Len(g.players)
  /\ \A i \in 1..Len(g.players) : i # c => g2.players[i] = g.players[i]


\* C1 (as claimed): while the game is started, cards in hands + deck + removed set
\* + face-up card = 33, whatever pass, take and removePlayer calls were made.
C1_AllCardsAccounted ==
  game.started => Total(game) = NumCards

\* C1 (amended): the count is 33 right after start(), pass and take keep it, and a
\* removePlayer lowers it by exactly the number of cards the removed player held.
C1_CardsAccountedUpToLeavers ==
  [][ /\ (~game.started /\ game'.started) => Total(game') = NumCards
      /\ (game.started /\ game'.started) =>
            Total(game') = Total(game) - HeldCount(Leavers(game, game'))
      /\ game.started =>
            /\ Total(GamePass(game, CurrentId(game)).g) = Total(game)
            /\ Total(GameTakeCard(game, CurrentId(game)).g) = Total(game) ]_vars

\* a round goes on after a player holding a card has been removed
C1_Witness ==
  game.started /\ hist.left > 0 /\ hist.takes > 0 /\ Total(game) < NumCards

\* C2: no player's token count is negative in any reachable state, and no pass
\* leaves one negative.
C2_TokensNonNegative ==
  /\ \A i \in 1..Len(game.players) : game.players[i].tokens >= 0
  /\ \A id \in Sockets \cup {CurrentId(game)} :
       \A i \in 1..Len(game.players) : GamePass(game, id).g.players[i].tokens >= 0

\* the current player is out of tokens after passes have been paid
C2_Witness ==
  game.started /\ last = [op |-> "pass", res |-> Continue]
    /\ Current(game).tokens = 0 /\ game.pileTokens > 0

\* C3: when the current player has 0 tokens, pass and take by that player return
\* the same result and leave the same Game.
C3_ForcedTakeEquivalence ==
  (game.started /\ HasCurrent(game) /\ Current(game).tokens = 0) =>
     GamePass(game, CurrentId(game)) = GameTakeCard(game, CurrentId(game))

\* a pass has just been served as a take: the pile is empty after a pass
C3_Witness ==
  game.started /\ last = [op |-> "pass", res |-> Continue]
    /\ game.pileTokens = 0 /\ Len(Current(game).cards) > 0

\* C4: a take by the current player puts the face-up card in that player's hand, adds
\* the pile to that player's tokens, empties the pile, turns up the front card of the
\* deck, and keeps the current player and every other player as they were.
C4_TakeEffect ==
  /\ (game.started /\ HasCurrent(game)) =>
       LET c == game.currentPlayerIndex + 1
           t == GameTakeCard(game, CurrentId(game))
       IN /\ ~IsError(t.res)
          /\ t.g.players[c].cards = Append(game.players[c].cards, game.currentCard)
          /\ t.g.players[c].tokens = game.players[c].tokens + game.pileTokens
          /\ t.g.pileTokens = 0
          /\ t.g.currentCard = IF game.deck = <<>> THEN Null ELSE Head(game.deck)
          /\ t.g.deck = IF game.deck = <<>> THEN <<>> ELSE Tail(game.deck)
          /\ t.g.currentPlayerIndex = game.currentPlayerIndex
          /\ OthersUnchanged(game, t.g, c)
  /\ (game.started /\ last.op = "take" /\ last.res = Continue) => game.pileTokens = 0

\* a take has collected a pile: the taker holds a card and more tokens than dealt
C4_Witness ==
  game.started /\ last = [op |-> "take", res |-> Continue]
    /\ Len(Current(game).cards) > 0
    /\ Current(game).tokens > game.gameSettings.initialTokens

\* C5: a pass by the current player who has a token costs that player one token, adds
\* one to the pile, makes the cyclically next player current, reports gameOver=false
\* and changes nothing else.
C5_PassEffect ==
  (game.started /\ HasCurrent(game) /\ Current(game).tokens > 0) =>
     LET c == game.currentPlayerIndex + 1
         n == Len(game.players)
         q == GamePass(game, CurrentId(game))
     IN /\ q.res = Continue
        /\ q.g.players[c].tokens = game.players[c].tokens - 1
        /\ q.g.players[c].cards = game.players[c].cards
        /\ q.g.pileTokens = game.pileTokens + 1
        /\ q.g.currentPlayerIndex = (IF c = n THEN 0 ELSE c)
        /\ q.g.currentPlayerIndex \in 0..(n - 1)
        /\ q.g.currentCard = game.currentCard
        /\ q.g.deck = game.deck
        /\ q.g.started
        /\ OthersUnchanged(game, q.g, c)

\* the last player in turn order has passed and the turn is back at the first
C5_Witness ==
  game.started /\ last = [op |-> "pass", res |-> Continue]
    /\ game.pileTokens > 0 /\ game.currentPlayerIndex = 0 /\ Len(game.players) >= 2

\* C6: pass and take with an id that is not the current player's, or while the game
\* is not started, return an error and leave the Game as it is; at most one id is
\* served in any state.
C6_OutOfTurnRejected ==
  /\ \A id \in KnownIds :
       (~game.started \/ id # CurrentId(game)) =>
          /\ IsError(GamePass(game, id).res) /\ GamePass(game, id).g = game
          /\ IsError(GameTakeCard(game, id).res) /\ GameTakeCard(game, id).g = game
  /\ \A a, b \in KnownIds :
       (~IsError(GamePass(game, a).res) \/ ~IsError(GameTakeCard(game, a).res))
         /\ (~IsError(GamePass(game, b).res) \/ ~IsError(GameTakeCard(game, b).res))
       => a = b

\* a player of the started game has just been refused out of turn
C6_Witness ==
  game.started /\ last.res = ErrNotYourTurn /\ Len(game.players) >= 2

\* C7: a take ends the round exactly when the deck is empty, a pass by a player who
\* has tokens never ends it, the takes made so far are the cards dealt before the
\* face-up one, so the last take is number 33 - removedCount, and when no player was
\* removed every card outside the removed set is then in a hand.
C7_RoundEndsOnLastCard ==
  (game.started /\ HasCurrent(game)) =>
     LET t == GameTakeCard(game, CurrentId(game))
         q == GamePass(game, CurrentId(game))
     IN /\ (t.res = GameOver) <=> (game.deck = <<>>)
        /\ (t.res = GameOver) <=> ~t.g.started
        /\ Current(game).tokens > 0 => (q.res = Continue /\ q.g.started)
        /\ hist.takes + Len(game.deck) + 1 = NumCards - game.gameSettings.removedCount
        /\ (t.res = GameOver /\ hist.left = 0) =>
              /\ HeldCards(t.g.players) \cup SeqRange(game.removedCards) = CardLo..CardHi
              /\ HeldCount(t.g.players) = NumCards - game.gameSettings.removedCount

\* the last card is face up after an earlier take
C7_Witness ==
  game.started /\ game.deck = <<>> /\ hist.takes > 0 /\ hist.left = 0

\* C8: while the game is started, currentPlayerIndex is the index of a player.
C8_CurrentIndexValid ==
  game.started => game.currentPlayerIndex \in 0..(Len(game.players) - 1)

\* a round goes on after a removal, the last player being current
C8_Witness ==
  game.started /\ hist.left > 0 /\ game.currentPlayerIndex = Len(game.players) - 1
    /\ game.currentPlayerIndex > 0

\* C9: a countdown that fires when the game is over or when the turn is no longer
\* the one it was scheduled in (the turn advanced, or its player left) changes nothing.
C9_StaleCountdownIsNoOp ==
  [][ ( /\ TurnTimerFire
        /\ game.turnTimer # <<>>
        /\ (~game.started \/ game.turnTimer[1] # TurnOf(game)) )
      => /\ game' = [game EXCEPT !.turnTimer = <<>>]
         /\ botTimers' = botTimers ]_vars

\* C10: in a started game the orchestrator has re-entered the current turn: a bot
\* that is current has a decision scheduled for this turn, a human that is current
\* under a non-zero limit has a countdown started for this turn.
C10_CurrentTurnEntered ==
  (game.started /\ HasCurrent(game)) =>
     IF Current(game).isBot
     THEN \E i \in 1..Len(botTimers) :
             botTimers[i] = [bot |-> CurrentId(game), turn |-> TurnOf(game)]
     ELSE game.gameSettings.turnTimeLimit # 0 => game.turnTimer = <<TurnOf(game)>>

\* C11: in a started game a pending countdown was scheduled for the turn now being
\* played, and that turn is a human player's: every advance of the turn, to a human
\* or to a bot, has cancelled the countdown of the turn before.
C11_PendingCountdownIsCurrent ==
  (game.started /\ game.turnTimer # <<>>) =>
     /\ HasCurrent(game)
     /\ ~Current(game).isBot
     /\ game.turnTimer = <<TurnOf(game)>>

\* C12: a handler that removes a player (disconnect) or soft-resets the Game (the end
\* of a round, or its cancellation) leaves no countdown and no bot decision pending.
C12_RemovalCancelsTimers ==
  [][ ( \/ \E s \in connected :
              /\ connected' = connected \ {s}
              /\ IndexOfId(game.players, s) # 0
        \/ game.started /\ ~game'.started )
      => /\ game'.turnTimer = <<>>
         /\ botTimers' = <<>> ]_vars

\* C13: a bot decision that fires when the game is not started or its bot is not the
\* current player only goes away; one that acts does so in the turn it was scheduled
\* in, and is no longer pending afterwards.
C13_StaleDecisionIsNoOp ==
  [][ \A i \in 1..Len(botTimers) : \A a \in {"take", "pass"} :
        BotTimerFire(i, a) =>
          LET cb == botTimers[i]
          IN /\ (~game.started \/ CurrentId(game) # cb.bot) =>
                   /\ game' = game
                   /\ botTimers' = RemoveAt(botTimers, i)
                   /\ last' = NoCall
             /\ last'.op # "none" =>
                   /\ cb.turn = TurnOf(game)
                   /\ last'.op = a
                   /\ ~IsError(last'.res)
                   /\ \A j \in 1..Len(botTimers') : botTimers'[j] # cb ]_vars

\* a decision has just fired in a started game whose current player is not its bot
C13_Witness ==
  game.started /\ fired = [by |-> "decision", acted |-> FALSE]

\* C14: at most one bot decision is pending, and it is the current player's, scheduled
\* for the turn being played.
C14_OneDecisionInFlight ==
  /\ Len(botTimers) <= 1
  /\ \A i \in 1..Len(botTimers) :
        /\ game.started
        /\ botTimers[i] = [bot |-> CurrentId(game), turn |-> TurnOf(game)]

\* the current turn has been entered: a decision is scheduled for a bot, a countdown
\* for a human under a non-zero limit
TurnEntered(g, bt) ==
  IF Current(g).isBot
  THEN \E i \in 1..Len(bt) : bt[i] = [bot |-> CurrentId(g), turn |-> TurnOf(g)]
  ELSE g.gameSettings.turnTimeLimit # 0 => g.turnTimer = <<TurnOf(g)>>

\* C15: a countdown is pending only in a started game with a non-zero limit; when it
\* expires on a human's turn the handler passes if that player has a token and takes
\* otherwise, leaves the Game and the bot decisions as the 'pass' or 'take' handler
\* would on that player's own message, and has entered the next turn or ended the round.
C15_TimeoutActsAsPlayer ==
  [][ /\ game.turnTimer # <<>> =>
           game.started /\ game.gameSettings.turnTimeLimit # 0
      /\ (TurnTimerFire /\ HasCurrent(game) /\ ~Current(game).isBot) =>
           LET id == CurrentId(game)
               op == IF Current(game).tokens > 0 THEN "pass" ELSE "take"
               r == IF op = "pass" THEN GamePass(game, id) ELSE GameTakeCard(game, id)
               own == AfterAction(r, botTimers)
           IN /\ last' = [op |-> op, res |-> r.res]
              /\ [game' EXCEPT !.turnTimer = <<>>] = [own.g EXCEPT !.turnTimer = <<>>]
              /\ botTimers' = own.bt
              /\ IF r.res = GameOver THEN ~game'.started
                 ELSE game'.started /\ TurnEntered(game', botTimers') ]_vars

\* a countdown has just expired on a player who had a token, and the game goes on
C15_Witness ==
  game.started /\ fired = [by |-> "countdown", acted |-> TRUE]
    /\ last = [op |-> "pass", res |-> Continue] /\ game.pileTokens > 0

Dealt(g, g2, first) ==
  LET k == g.gameSettings.removedCount
      t == g.gameSettings.initialTokens
  IN /\ g2.started
     /\ Len(g2.removedCards) = k
     /\ g2.currentCard \in CardLo..CardHi
     /\ Len(g2.deck) = NumCards - k - 1
     /\ GetState(g2).deckSize = NumCards - k - 1
     /\ GetState(g2).removedCount = k
     /\ k = 9 => GetState(g2).deckSize = 23
     /\ SeqRange(g2.removedCards) \cup SeqRange(g2.deck) \cup {g2.currentCard}
           = CardLo..CardHi
     /\ g2.pileTokens = 0
     /\ Len(g2.players) = Len(g.players)
     /\ \A i \in 1..Len(g2.players) :
           g2.players[i].tokens = t /\ g2.players[i].cards = <<>>
     /\ g2.currentPlayerIndex = 0
     /\ g2.players # <<>> => GetState(g2).currentPlayerId = first

LobbyNames == UNION { LobbyNamesOf(s) : s \in ThreeSockets }

\* addPlayer must refuse (id, nickname) on g
MustRefuseJoin(g, nickname) ==
  \/ g.started
  \/ Len(g.players) >= 7
  \/ \E i \in 1..Len(g.players) : g.players[i].nickname = nickname

\* C18: addPlayer returns false and leaves the Game as it is when the game is
\* started, when 7 players are in the lobby or when the nickname is taken; otherwise
\* it appends the player, who becomes the host exactly when the lobby was empty; the
\* 'join' handler leaves the Game accordingly.
C18_AddPlayerRejected ==
  [][ /\ \A id \in ThreeSockets : \A name \in LobbyNames :
           LET r == GameAddPlayer(game, id, name)
           IN IF MustRefuseJoin(game, name)
              THEN ~r.ok /\ r.g = game
              ELSE /\ r.ok
                   /\ r.g = [game EXCEPT
                               !.players = Append(@, NewPlayer(id, name)),
                               !.hostId = IF game.players = <<>> THEN id ELSE @]
      /\ \A s \in ThreeSockets : \A n \in LobbyNamesOf(s) :
           Join(s, n) =>
             IF MustRefuseJoin(game, n) THEN game' = game
             ELSE /\ Len(game'.players) = Len(game.players) + 1
                  /\ game'.players[Len(game'.players)] = NewPlayer(s, n)
                  /\ Len(game'.players) <= 7
                  /\ game'.hostId = (IF game.players = <<>> THEN s ELSE game.hostId) ]_vars

\* a 'join' has just been refused in a lobby of seven that has room for the name
C18_Witness ==
  /\ ~game.started
  /\ Len(game.players) = 7
  /\ fired = [by |-> "join", acted |-> FALSE]
  /\ \A i \in 1..Len(game.players) : game.players[i].nickname \notin {"B", "C"}

\* C19: when removePlayer(id) removes the host and a player remains, hostId becomes
\* the id of the first remaining player that is not a bot, never the id of a bot
\* (over the calls the 'disconnect' handler makes: id is a connected socket).
C19_HostGoesToHuman ==
  \A s \in connected :
    LET g1 == GameRemovePlayer(game, s)
    IN (game.hostId = s /\ IndexOfId(game.players, s) # 0 /\ Len(g1.players) > 0)
         => /\ FirstHuman(g1.players) # 0
            /\ g1.hostId = g1.players[FirstHuman(g1.players)].id
            /\ \A i \in 1..Len(g1.players) :
                  g1.players[i].id = g1.hostId => ~g1.players[i].isBot

\* C20: transferHost(requester, target) sets hostId to target, and changes nothing
\* else, exactly when requester is the current host and target is a player; otherwise
\* it returns false and the Game is as before. The 'transferHost' handler leaves the
\* Game and the timers accordingly.
C20_TransferHost ==
  [][ /\ \A req \in KnownIds : \A t \in KnownIds :
           LET r == GameTransferHost(game, req, t)
           IN IF game.hostId = req /\ IndexOfId(game.players, t) # 0
              THEN r.ok /\ r.g = [game EXCEPT !.hostId = t]
              ELSE ~r.ok /\ r.g = game
      /\ \A s \in Sockets : \A t \in KnownIds :
           TransferHost(s, t) =>
             /\ game' = IF game.hostId = s /\ IndexOfId(game.players, t) # 0
                        THEN [game EXCEPT !.hostId = t]
                        ELSE game
             /\ botTimers' = botTimers
             /\ connected' = connected ]_vars

\* a transfer has just been accepted and the host is now a player that is not the
\* first of the list
C20_Witness ==
  /\ fired = [by |-> "transferHost", acted |-> TRUE]
  /\ Len(game.players) >= 2
  /\ game.hostId # game.players[1].id
  /\ IndexOfId(game.players, game.hostId) # 0

\* integers a payload of 'updateSettings' can carry for a field: below, on and
\* above each end of the three ranges
SettingValues == {-1, 0, 1, 2, 32, 33, 50, 51, 300, 301}

\* payloads naming one field, and one naming all three
SettingPayloads ==
  { [removedCount |-> v] : v \in SettingValues }
    \cup { [initialTokens |-> v] : v \in SettingValues }
    \cup { [turnTimeLimit |-> v] : v \in SettingValues }
    \cup { [removedCount |-> 40, initialTokens |-> 0, turnTimeLimit |-> -5] }

\* v brought into lo..hi
Within(lo, hi, v) == IF v < lo THEN lo ELSE IF v > hi THEN hi ELSE v

\* the value field f must have after the payload `new` was applied to settings `old`
SettingAfter(old, new, f, lo, hi) ==
  Within(lo, hi, IF f \in DOMAIN new THEN new[f] ELSE old[f])

\* C21: updateSettings is rejected once the game is started, and no step changes the
\* settings between two started states; in the lobby it is accepted and leaves
\* removedCount in 1..32, initialTokens in 1..50 and turnTimeLimit in 0..300 for every
\* integer supplied, a supplied value inside its range being taken as it is, and the
\* fields not supplied keep their values.
C21_UpdateSettings ==
  [][ /\ \A new \in SettingPayloads :
           LET r == GameUpdateSettings(game, new)
               old == game.gameSettings
               now == r.g.gameSettings
           IN IF game.started THEN ~r.ok /\ r.g = game
              ELSE /\ r.ok
                   /\ r.g = [game EXCEPT !.gameSettings = now]
                   /\ DOMAIN now = DOMAIN old
                   /\ now.removedCount = SettingAfter(old, new, "removedCount", 1, 32)
                   /\ now.initialTokens = SettingAfter(old, new, "initialTokens", 1, 50)
                   /\ now.turnTimeLimit = SettingAfter(old, new, "turnTimeLimit", 0, 300)
                   /\ now.removedCount \in 1..32
                   /\ now.initialTokens \in 1..50
                   /\ now.turnTimeLimit \in 0..300
                   /\ \A f \in DOMAIN old \ DOMAIN new : now[f] = old[f]
      /\ (game.started /\ game'.started) => game'.gameSettings = game.gameSettings
      /\ game'.gameSettings.removedCount \in 1..32
      /\ game'.gameSettings.initialTokens \in 1..50
      /\ game'.gameSettings.turnTimeLimit \in 0..300 ]_vars

\* the lobby after updateSettings clamped initialTokens 0 to 1 and kept the
\* removedCount and the turnTimeLimit an earlier call had set
C21_Witness ==
  /\ ~game.started
  /\ game.gameSettings.initialTokens = 1
  /\ game.gameSettings.removedCount = 31
  /\ game.gameSettings.turnTimeLimit = 0

\* C22: in the lobby, updateSettings applied a second time with the same payload is
\* accepted and leaves the Game, and so the settings, exactly as the first application
\* left them.
C22_UpdateSettingsIdempotent ==
  \A new \in SettingPayloads :
    LET once == GameUpdateSettings(game, new)
        twice == GameUpdateSettings(once.g, new)
    IN ~game.started =>
         /\ once.ok /\ twice.ok
         /\ twice.g.gameSettings = once.g.gameSettings
         /\ twice.g = once.g

\* a lobby of two whose settings three payloads have produced, one of them out of
\* range (initialTokens 0): each of the three applied again changes nothing
C22_Witness ==
  /\ ~game.started
  /\ Len(game.players) = 2
  /\ game.gameSettings.removedCount = 30
  /\ game.gameSettings.initialTokens = 1
  /\ game.gameSettings.turnTimeLimit = 0
  /\ \A new \in {[removedCount |-> 30], [initialTokens |-> 0], [turnTimeLimit |-> 0]} :
        GameUpdateSettings(game, new).g = game

IsHuman(p) == ~p.isBot

\* g holds no game data: no deck, removed cards, card or pile, not started, no
\* countdown, and every player has 0 tokens and no card
Cleared(g) ==
  /\ g.deck = <<>> /\ g.removedCards = <<>>
  /\ g.currentCard = Null /\ g.pileTokens = 0
  /\ ~g.started
  /\ g.turnTimer = <<>> /\ g.turnStartTime = Null
  /\ \A i \in 1..Len(g.players) :
        g.players[i].tokens = 0 /\ g.players[i].cards = <<>> /\ ~g.players[i].isBot

\* C23: softReset keeps exactly the human players, in their order, each with 0 tokens
\* and no card, drops every bot, empties the deck, the removed cards, the current card
\* and the pile, sets started to false, cancels the countdown, and leaves hostId on the
\* previous host if that player is kept, else on the first kept human, else on none;
\* the state a game-ending action leaves (handleGameEnd) is cleared in this way.
C23_SoftReset ==
  /\ LET r == GameSoftReset(game)
         kept == SelectSeq(game.players, IsHuman)
     IN /\ Len(r.players) = Len(kept)
        /\ \A i \in 1..Len(kept) :
              /\ r.players[i].id = kept[i].id
              /\ r.players[i].nickname = kept[i].nickname
        /\ Cleared(r)
        /\ r.hostId =
              IF \E i \in 1..Len(kept) : kept[i].id = game.hostId THEN game.hostId
              ELSE IF kept # <<>> THEN kept[1].id
              ELSE Null
  /\ last.res = GameOver =>
        /\ Cleared(game)
        /\ \/ game.players = <<>> /\ game.hostId = Null
           \/ \E i \in 1..Len(game.players) : game.players[i].id = game.hostId

\* the take a bot decided on has just ended a game: the bot is gone, a human is left
C23_Witness ==
  /\ last = [op |-> "take", res |-> GameOver]
  /\ fired = [by |-> "decision", acted |-> TRUE]
  /\ Len(game.players) >= 1

RECURSIVE SumOf(_)
SumOf(S) == IF S = {} THEN 0 ELSE LET c == CHOOSE x \in S : TRUE IN c + SumOf(S \ {c})

CardSet(cards) == { cards[k] : k \in 1..Len(cards) }

\* the lowest card of each maximal run of consecutive cards of S
RunStarts(S) == { c \in S : c - 1 \notin S }

\* the result calculateScores returned for the player of that nickname
ResultOf(results, nickname) ==
  results[CHOOSE k \in 1..Len(results) : results[k].nickname = nickname]

\* C24: the score of a player is the sum of the lowest card of each maximal run of
\* consecutive cards held, whatever the order they were taken in, minus the tokens held;
\* cards 3,4,5,10 with 2 tokens score 11 and cards 7,9 with no token score 16; the
\* results calculateScores returns carry these scores.
C24_ScoreIsRunStartsMinusTokens ==
  /\ \A i \in 1..Len(game.players) :
        LET p == game.players[i]
        IN ScoreOf(p.cards, p.tokens) = SumOf(RunStarts(CardSet(p.cards))) - p.tokens
  /\ ScoreOf(<<3, 4, 5, 10>>, 2) = 11
  /\ ScoreOf(<<10, 5, 3, 4>>, 2) = 11
  /\ ScoreOf(<<7, 9>>, 0) = 16
  /\ ScoreOf(<<>>, 2) = -2
  /\ last.op = "calculateScores" =>
        /\ Len(last.res) = Len(game.players)
        /\ \A i \in 1..Len(game.players) :
              LET p == game.players[i]
              IN ResultOf(last.res, p.nickname).score
                   = SumOf(RunStarts(CardSet(p.cards))) - p.tokens

\* calculateScores has scored the hands of the test, A having taken 10 first: 11 and 16
C24_Witness ==
  /\ last.op = "calculateScores"
  /\ game.players[1].cards = <<10, 5, 3, 4>> /\ game.players[1].tokens = 2
  /\ game.players[2].cards = <<9, 7>> /\ game.players[2].tokens = 0
  /\ ResultOf(last.res, "A").score = 11
  /\ ResultOf(last.res, "B").score = 16

\* the place in the players list of the player of that nickname
PlaceOf(g, nickname) ==
  CHOOSE i \in 1..Len(g.players) : g.players[i].nickname = nickname

\* C25: calculateScores returns one result per player, in ascending order of score,
\* the result at place k carrying rank k, and results of equal score in the order their
\* players have in the players list.
C25_RankedStably ==
  last.op = "calculateScores" =>
    LET res == last.res
        n == Len(game.players)
    IN /\ Len(res) = n
       /\ \A i \in 1..n : \E k \in 1..n : res[k].nickname = game.players[i].nickname
       /\ \A k \in 1..n :
             /\ res[k].rank = k
             /\ res[k].score = ScoreOf(game.players[PlaceOf(game, res[k].nickname)].cards,
                                       game.players[PlaceOf(game, res[k].nickname)].tokens)
       /\ \A k, m \in 1..n :
             k < m =>
               /\ res[k].score <= res[m].score
               /\ res[k].score = res[m].score
                     => PlaceOf(game, res[k].nickname) < PlaceOf(game, res[m].nickname)

\* three players scored: B is first, A and C have the same score and A is ranked
\* before C
C25_Witness ==
  /\ last.op = "calculateScores"
  /\ Len(last.res) = 3
  /\ last.res[1].nickname = "B" /\ last.res[2].nickname = "A" /\ last.res[3].nickname = "C"
  /\ last.res[1].score < last.res[2].score
  /\ last.res[2].score = last.res[3].score
  /\ last.res[3].rank = 3

----------------------------------------------------------------------------
(* Properties of the decision policy *)

\* the bot that decides, as the Game holds it
Deciding == Current(game)

\* makeDecision was called on getState() of the game
Decided == last.op = "makeDecision" /\ last.input = "getState"

\* C26: a bot with 0 tokens decides to take, whatever the game state, its emotions,
\* its relations and the random draws: no stage after the basic decision turns the
\* forced take into a pass.
C26_ForcedTake ==
  (Decided /\ Deciding.tokens = 0) => last.res = "take"

ScoreSaved(held, currentCard) ==
  1000 * (ScoreOf(held, 0) - ScoreOf(Append(held, currentCard), 0))

\* C28: the connection bonus the policy uses is score(held, 0) - score(held + card, 0),
\* whatever the hand, the card and the tokens of the bot, in both versions of
\* getConnectionBonus.
C28_ConnectionBonus ==
  Decided =>
    /\ GetConnectionBonus(Deciding, game.currentCard)
         = ScoreSaved(Deciding.cards, game.currentCard)
    /\ GetConnectionBonusOfScore(Deciding, game.currentCard)
         = ScoreSaved(Deciding.cards, game.currentCard)

\* the games that differ from g only in the tokens of the deciding bot's opponents,
\* the tokens in the game adding up as in g
OtherOpponentTokens(g) ==
  LET opponents == 2..Len(g.players)
      with(t) == [ g EXCEPT !.players = [ i \in DOMAIN g.players |->
                     IF i \in opponents THEN [ g.players[i] EXCEPT !.tokens = t[i] ]
                     ELSE g.players[i] ] ]
  IN { with(t) : t \in { u \in [opponents -> OpponentTokens] :
                           TokenSum(with(u).players) = TokenSum(g.players) } }

\* C29: with showOpponentTokens off, the decision makeDecision returns is the one it
\* returns, for the same bot and the same random draws, in every game that differs
\* only in the tokens the opponents hold.
C29_HiddenTokens ==
  [][ ( /\ last'.op = "makeDecision"
        /\ last'.input = "getState"
        /\ ~game.gameSettings.showOpponentTokens )
      => \A other \in OtherOpponentTokens(game) :
           MakeDecision(Current(other), GetState(other), last'.draws).decision = last'.res
    ]_vars

\* C30: makeDecision never throws and returns take or pass; when a step fails or the
\* input is unusable it returns take for a bot with 0 tokens and pass otherwise.
C30_FailSafe ==
  /\ last.op = "makeDecision" => last.res \in {"take", "pass"}
  /\ (last.op = "makeDecision" /\ last.input # "getState")
       => last.res = (IF Deciding.tokens = 0 THEN "take" ELSE "pass")
  /\ Decided => \A playStyle \in SelectPlayStyle(Deciding.difficulty) :
                  ~ApplyPlayStyleStrategyThrows(playStyle, GetState(game))

----------------------------------------------------------------------------
(* The orchestrator with the calls it makes on the Bot objects.  game.js builds *)
(* its bots from src/server/bot.js, whose class defines makeDecision and none   *)
(* of reactToEvent, observePlayerAction, wouldPlayerWantCard.  A call of a      *)
(* missing method, or a makeDecision that throws, ends the handler where it     *)
(* stands: what it wrote before stays, nothing after it runs (index.js has no   *)
(* try around any of them).                                                     *)

\* the methods index.js calls on a player that is a bot, and the class defines
DefinedBotMethods == {"makeDecision"}

\* calculatePlayerScore(player) of index.js: 0 for an empty hand, whatever the tokens
IndexPlayerScore(player) ==
  IF Len(player.cards) = 0 THEN 0 ELSE ScoreOf(player.cards, player.tokens)

\* the places before players[i] in currentRankings: sort by score, stable
RankedBefore(players, i) ==
  { j \in 1..Len(players) :
      \/ IndexPlayerScore(players[j]) < IndexPlayerScore(players[i])
      \/ IndexPlayerScore(players[j]) = IndexPlayerScore(players[i]) /\ j < i }

\* notifyBotsOfRankingChange() reaches a call of player.reactToEvent; streak is
\* the draw `CryptoRandom.enhancedRandom() < 0.3` made for a bot that leads
RankingChangeReacts(g, streak) ==
  \E i \in 1..Len(g.players) :
     /\ g.players[i].isBot
     /\ \/ \E j \in RankedBefore(g.players, i) : ~g.players[j].isBot
        \/ RankedBefore(g.players, i) = {} /\ streak

\* broadcastState() throws: player.reactToEvent is not a function
BroadcastStateThrows(g, streak) ==
  /\ g.started
  /\ RankingChangeReacts(g, streak)
  /\ "reactToEvent" \notin DefinedBotMethods

\* notifyBotsOfCardTaken(taker, cardNumber, ..) throws: a bot other than the taker
\* holds a card within 2 of the card taken, and reactToEvent is called on it
CardTakenThrows(g, takerId, cardNumber) ==
  /\ \E i \in 1..Len(g.players) :
        /\ g.players[i].isBot
        /\ g.players[i].id # takerId
        /\ \E k \in 1..Len(g.players[i].cards) :
              Distance(g.players[i].cards[k], cardNumber) <= 2
  /\ "reactToEvent" \notin DefinedBotMethods

\* currentPlayer.makeDecision(game.getState()) throws (bot.js:108, 337)
MakeDecisionThrows(bot, gameState) ==
  ApplyPlayStyleStrategyThrows(bot.playStyle, gameState)

\* startNextTurn(): broadcastState() comes before handleBotTurn() on a bot's turn,
\* after startTurnTimer() on a human's
StartNextTurnHooks(g, bt, streak) ==
  IF HasCurrent(g) /\ Current(g).isBot
  THEN LET g1 == [g EXCEPT !.turnStartTime = Null]
       IN IF BroadcastStateThrows(g1, streak) THEN [g |-> g1, bt |-> bt]
          ELSE [g |-> g1, bt |-> HandleBotTurn(g1, bt)]
  ELSE [g |-> StartTurnTimer(g), bt |-> bt]

\* if (result && result.gameOver) handleGameEnd(scores) else startNextTurn(); the
\* broadcastState() of handleGameEnd finds no game started and calls no bot
AfterActionHooks(r, bt, streak) ==
  IF r.res = GameOver THEN [g |-> HandleGameEnd(r.g), bt |-> bt]
  ELSE StartNextTurnHooks(r.g, bt, streak)

StyledBotIds == <<301, 302>>              \* the ids of the bots created here
PlayStyles == {"masterful", "hybrid"}     \* the styles the constructor may draw here

\* socket.on('addBot'): the Bot built by addBot carries the play style its
\* constructor has drawn (bot.js:22)
AddStyledBot(s, difficulty, playStyle) ==
  /\ s \in connected
  /\ playStyle \in SelectPlayStyle(difficulty)
  /\ IF difficulty \notin {"medium", "hard", "expert"}
        \/ game.hostId = Null \/ s # game.hostId
     THEN UNCHANGED <<game, nextBot>>
     ELSE /\ nextBot < Len(StyledBotIds)
          /\ LET r == GameAddBot(game, StyledBotIds[nextBot + 1], difficulty)
             IN IF r.ok
                THEN /\ game' = [r.g EXCEPT !.players[Len(r.g.players)] =
                                   @ @@ [playStyle |-> playStyle]]
                     /\ nextBot' = nextBot + 1
                ELSE UNCHANGED <<game, nextBot>>
  /\ last' = NoCall
  /\ UNCHANGED <<botTimers, connected>>
  /\ hist' = HistStep(game, game', last')
  /\ fired' = NoFire

\* socket.on('start')
StartHooks(s, streak) ==
  /\ s \in connected
  /\ IF s # game.hostId \/ game.started \/ ~HasHumanPlayers(game)
     THEN UNCHANGED <<game, botTimers>>
     ELSE /\ WithinBounds(game)
          /\ \E shuffled \in Shuffles, order \in PlayerOrders(Len(game.players)) :
               LET r == GameStart(game, shuffled, order)
                   a == StartNextTurnHooks(r.g, botTimers, streak)
               IN IF r.ok THEN game' = a.g /\ botTimers' = a.bt
                  ELSE UNCHANGED <<game, botTimers>>
  /\ last' = NoCall
  /\ UNCHANGED <<connected, nextBot>>
  /\ hist' = HistStep(game, game', last')
  /\ fired' = [by |-> "start", acted |-> ~game.started /\ game'.started]

\* socket.on('pass'): notifyBotsOfPlayerAction calls observePlayerAction only where
\* it is defined
PassHooks(s, streak) ==
  /\ s \in connected
  /\ LET r == GamePass(game, s)
         a == AfterActionHooks(r, botTimers, streak)
     IN /\ IF IsError(r.res) THEN UNCHANGED <<game, botTimers>>
           ELSE game' = a.g /\ botTimers' = a.bt
        /\ last' = [op |-> "pass", res |-> r.res]
  /\ UNCHANGED <<connected, nextBot>>
  /\ hist' = HistStep(game, game', last')
  /\ fired' = NoFire

\* socket.on('take')
TakeHooks(s, streak) ==
  /\ s \in connected
  /\ LET r == GameTakeCard(game, s)
         a == AfterActionHooks(r, botTimers, streak)
     IN /\ IF IsError(r.res) THEN UNCHANGED <<game, botTimers>>
           ELSE IF CardTakenThrows(r.g, s, game.currentCard)
           THEN game' = r.g /\ UNCHANGED botTimers
           ELSE game' = a.g /\ botTimers' = a.bt
        /\ last' = [op |-> "take", res |-> r.res]
  /\ UNCHANGED <<connected, nextBot>>
  /\ hist' = HistStep(game, game', last')
  /\ fired' = NoFire

\* the setTimeout callback of handleBotTurn fires; `action` is what makeDecision
\* returns when it returns
BotDecisionFires(i, action, streak) ==
  /\ i \in 1..Len(botTimers)
  /\ LET cb == botTimers[i]
         bt == RemoveAt(botTimers, i)
     IN IF ~game.started \/ CurrentId(game) # cb.bot
        THEN /\ botTimers' = bt
             /\ last' = NoCall
             /\ UNCHANGED game
        ELSE IF MakeDecisionThrows(Current(game), GetState(game))
        THEN /\ botTimers' = bt
             /\ last' = [op |-> "makeDecision", res |-> "throws"]
             /\ UNCHANGED game
        ELSE LET r == IF action = "take" THEN GameTakeCard(game, cb.bot)
                      ELSE GamePass(game, cb.bot)
                 a == AfterActionHooks(r, bt, streak)
             IN /\ IF action = "take" /\ CardTakenThrows(r.g, cb.bot, game.currentCard)
                   THEN game' = r.g /\ botTimers' = bt
                   ELSE game' = a.g /\ botTimers' = a.bt
                /\ last' = [op |-> action, res |-> r.res]
  /\ UNCHANGED <<connected, nextBot>>
  /\ hist' = HistStep(game, game', last')
  /\ fired' = [by |-> "decision", acted |-> last'.op # "none"]

NextHooks ==
  \/ \E s \in Sockets : \E n \in NamesOf(s) : Join(s, n)
  \/ \E s \in Sockets, p \in PlayStyles : AddStyledBot(s, "expert", p)
  \/ \E s \in Sockets, new \in BotSettingsInputs : UpdateSettings(s, new)
  \/ \E s \in Sockets, streak \in BOOLEAN : StartHooks(s, streak)
  \/ \E s \in Sockets, streak \in BOOLEAN : PassHooks(s, streak)
  \/ \E s \in Sockets, streak \in BOOLEAN : TakeHooks(s, streak)
  \/ \E i \in 1..Len(botTimers), a \in {"take", "pass"}, streak \in BOOLEAN :
        BotDecisionFires(i, a, streak)

SpecHooks == Init /\ [][NextHooks]_vars

\* C31: a bot decision that fires on its bot's turn applies a take or a pass and
\* then has ended the round or entered the next turn, whatever makeDecision and the
\* calls on the other bots do.
C31_DecisionNeverStalls ==
  [][ (fired'.by = "decision" /\ fired'.acted) =>
        /\ last'.op \in {"take", "pass"}
        /\ ~IsError(last'.res)
        /\ IF last'.res = GameOver THEN ~game'.started
           ELSE game'.started /\ HasCurrent(game') /\ TurnEntered(game', botTimers') ]_vars

----------------------------------------------------------------------------
(* The scores computed outside calculateScores *)

\* the player a result of calculateScores was computed for, as the helpers read it
ScoredPlayer(result) == [cards |-> result.cards, tokens |-> result.tokens]

\* C32: for every hand, the empty one included, and every token count,
\* Bot.calculatePlayerScore, Bot.calculateCurrentScore and the orchestrator's
\* calculatePlayerScore give the score calculateScores gives.
C32_ScoresAgree ==
  last.op = "calculateScores" =>
    \A k \in 1..Len(last.res) :
       /\ CalculatePlayerScore(ScoredPlayer(last.res[k])) = last.res[k].score
       /\ CalculateCurrentScore(ScoredPlayer(last.res[k])) = last.res[k].score
       /\ IndexPlayerScore(ScoredPlayer(last.res[k])) = last.res[k].score

----------------------------------------------------------------------------
(* Properties of removePlayer and of the 'disconnect' handler *)

\* C33: removePlayer(id) in a started game keeps the turn: when the player removed
\* is not the current one the same player stays current, when it is the current one
\* the player after it in turn order (the first, past the end) becomes current; the
\* face-up card and the pile stay as they are.
C33_RemovalKeepsTurn ==
  (game.started /\ HasCurrent(game)) =>
    \A i \in 1..Len(game.players) :
       LET id == game.players[i].id
           pos == IndexOfId(game.players, id)
           cur == game.currentPlayerIndex + 1
           g1 == GameRemovePlayer(game, id)
       IN /\ g1.currentCard = game.currentCard
          /\ g1.pileTokens = game.pileTokens
          /\ Len(g1.players) = Len(game.players) - 1
          /\ Len(g1.players) > 0 =>
                /\ HasCurrent(g1)
                /\ Current(g1) = IF pos # cur THEN Current(game)
                                 ELSE game.players[(cur % Len(game.players)) + 1]

\* a player has left the round being played, which goes on with a token on the card
C33_Witness ==
  /\ game.started
  /\ hist.left > 0
  /\ Len(game.players) >= 2
  /\ game.pileTokens > 0

\* the Game is a lobby again: nothing of a round is left, and no bot
BackInLobby(g) ==
  /\ ~g.started
  /\ g.deck = <<>> /\ g.removedCards = <<>> /\ g.currentCard = Null /\ g.pileTokens = 0
  /\ g.turnTimer = <<>>
  /\ \A i \in 1..Len(g.players) :
        /\ ~g.players[i].isBot
        /\ g.players[i].tokens = 0
        /\ g.players[i].cards = <<>>

\* C34: when a player's socket disconnects during a started game and no human, or
\* fewer than two players, remain, the handler ends the game at once (soft reset,
\* not started, no bot left, the humans that remain in the lobby); otherwise the
\* game stays started, with the round as it was and the players that remain.
C34_DisconnectEndsOrGoesOn ==
  [][ \A s \in connected :
        ( /\ connected' = connected \ {s}
          /\ IndexOfId(game.players, s) # 0
          /\ game.started )
        => LET remaining == RemoveAt(game.players, IndexOfId(game.players, s))
           IN IF HumansOf(remaining) = <<>> \/ Len(remaining) < 2
              THEN /\ BackInLobby(game')
                   /\ [ i \in 1..Len(game'.players) |-> game'.players[i].id ]
                        = [ i \in 1..Len(HumansOf(remaining)) |-> HumansOf(remaining)[i].id ]
              ELSE /\ game'.started
                   /\ game'.players = remaining
                   /\ game'.deck = game.deck
                   /\ game'.currentCard = game.currentCard
                   /\ game'.pileTokens = game.pileTokens ]_vars

\* a person has left the round being played, which goes on with a bot among the players
C34_Witness ==
  /\ game.started
  /\ hist.left > 0
  /\ BotCount(game.players) > 0
  /\ HasHumanPlayers(game)

----------------------------------------------------------------------------
(* Invariants of the session *)

\* C35: whenever a human player is present, hostId is the id of a player of the
\* session that is not a bot.
C35_HostIsHuman ==
  HasHumanPlayers(game) =>
    \E i \in 1..Len(game.players) :
       game.players[i].id = game.hostId /\ ~game.players[i].isBot

\* the tokens in play: those of the players and those on the card
TokensInPlay(g) == TokenSum(g.players) + g.pileTokens

\* C36: from start() to the end of the round, as long as no player is removed, the
\* players' tokens and the pile add up to (number of players) x initialTokens.
C36_TokensConserved ==
  (game.started /\ hist.left = 0) =>
     TokensInPlay(game) = Len(game.players) * game.gameSettings.initialTokens

\* a card has been taken and a token paid since, nobody having left
C36_Witness ==
  /\ game.started
  /\ hist.left = 0
  /\ hist.takes > 0
  /\ game.pileTokens > 0

\* the cards of g, wherever they lie
CardPlaces(g) ==
  HeldCards(g.players) \cup SeqRange(g.deck) \cup SeqRange(g.removedCards)
    \cup (IF g.currentCard # Null THEN {g.currentCard} ELSE {})

\* no card of g lies in two places or twice in one, and every card is one of 3..35
InOnePlace(g) ==
  /\ Cardinality(CardPlaces(g)) = Total(g)
  /\ CardPlaces(g) \subseteq CardLo..CardHi

\* C37: from start() to the soft reset the hands, the deck, the removed cards and the
\* face-up card are pairwise disjoint, hold no card twice and hold only cards of
\* 3..35; this is so in every started state and in the state a take leaves, the
\* last take of the round included.
C37_CardsInOnePlace ==
  (game.started /\ HasCurrent(game)) =>
     /\ InOnePlace(game)
     /\ InOnePlace(GameTakeCard(game, CurrentId(game)).g)

\* a card has been taken and the deck is empty: the next take ends the round
C37_Witness ==
  /\ game.started
  /\ game.deck = <<>>
  /\ Cardinality({ i \in 1..Len(game.players) : game.players[i].cards # <<>> }) >= 1
  /\ game.currentCard # Null

----------------------------------------------------------------------------
(* Termination of a round.  Two people; the player whose turn it is always acts *)
(* in the end, by a message of its own (the countdown, which acts for it, is    *)
(* left as it is).                                                              *)

\* the current player's socket sends 'pass' or 'take'
CurrentActs ==
  \E s \in Sockets : game.started /\ s = CurrentId(game) /\ (Pass(s) \/ Take(s))

NextActs ==
  \/ \E s \in Sockets : \E n \in NamesOf(s) : Join(s, n)
  \/ \E s \in Sockets : Start(s)
  \/ \E s \in Sockets : Pass(s)
  \/ \E s \in Sockets : Take(s)
  \/ TurnTimerFire
  \/ \E s \in Sockets, new \in SettingsInputs : UpdateSettings(s, new)
  \/ \E s \in Sockets : Disconnect(s)

SpecActs == Init /\ [][NextActs]_vars /\ WF_vars(CurrentActs)

\* the cards still to be taken: the deck and the face-up card
CardsLeft(g) == Len(g.deck) + (IF g.currentCard # Null THEN 1 ELSE 0)

\* the tokens dealt at start() to the players of g and to those who have left since
TokensDealt(g, h) == (Len(g.players) + h.left) * g.gameSettings.initialTokens

\* C38: a started round ends if the current player always acts in the end. Every
\* pass or take that is applied either takes a card out of those left (the last one
\* ends the round) or leaves them and moves one token from the players to the pile;
\* the passes since the last take, which are the tokens on the card, never exceed the
\* tokens dealt at start(); so every started round reaches its end.
C38_RoundTerminates ==
  /\ [][ ( /\ game.started
           /\ last'.op \in {"pass", "take"}
           /\ ~IsError(last'.res) )
         => IF last'.res = GameOver
            THEN ~game'.started /\ CardsLeft(game) = 1
            ELSE /\ game'.started
                 /\ \/ CardsLeft(game') = CardsLeft(game) - 1
                    \/ /\ CardsLeft(game') = CardsLeft(game)
                       /\ TokenSum(game'.players) = TokenSum(game.players) - 1
                       /\ game'.pileTokens = game.pileTokens + 1
                       /\ game'.pileTokens <= TokensDealt(game', hist') ]_vars
  /\ (game.started ~> ~game.started)

\* a round in which a card was taken and a token then paid has its last card face up
C38_Witness ==
  /\ game.started
  /\ CardsLeft(game) = 1
  /\ hist.takes > 0
  /\ game.pileTokens > 0
  /\ last.op = "pass"

----------------------------------------------------------------------------
(* The random step that ends a decision, by difficulty *)

\* getStyleModifiers().riskTaking of a play style, in thousandths
RiskTaking(playStyle) ==
  IF playStyle = "conservative" THEN 100
  ELSE IF playStyle = "aggressive" THEN 900
  ELSE IF playStyle = "psychological" THEN 600
  ELSE IF playStyle = "manipulative" THEN 700
  ELSE 500

\* randomRange of mediumDecision, hardDecision and expertDecision, in thousandths:
\* randomFactor is drawn uniformly from an interval of this width around 0
RandomRange(difficulty, playStyle) ==
  IF difficulty = "hard" THEN 3 * (700 + (RiskTaking(playStyle) * 6) \div 10)
  ELSE IF difficulty = "expert" THEN (8 * (800 + (RiskTaking(playStyle) * 4) \div 10)) \div 10
  ELSE 8 * (500 + RiskTaking(playStyle) \div 2)

\* the difficulty tiers, the easiest first
Tiers == <<"medium", "hard", "expert">>

\* values of Math.random() in addFinalRandomness, in thousandths
ProbeDraws == {0, 10, 20, 30, 40}

\* addFinalRandomness turns a pass that rests on no strategic reason into a take
\* when Math.random() returns `draw`, for the bot as it is but of this difficulty
FlipsAt(bot, difficulty, gameState, draw) ==
  AddFinalRandomness([bot EXCEPT !.difficulty = difficulty], Reason("none", "none"), "pass",
                     gameState, [DrawsWith({}) EXCEPT !.final = draw]) # "pass"

\* C39: the final random step weighs no more on a harder bot. Where it applies, a
\* draw that flips the decision of a bot of a harder tier flips that of an easier
\* one (the flip is no likelier for medium, hard, expert in this order), and the
\* width of the random term of the style-based decisions does not grow with the tier.
C39_RandomnessNonIncreasing ==
  Decided =>
    \A i \in 1..3 : \A j \in (i + 1)..3 :
       /\ \A draw \in ProbeDraws :
             FlipsAt(Deciding, Tiers[j], GetState(game), draw)
               => FlipsAt(Deciding, Tiers[i], GetState(game), draw)
       /\ \A easier \in SelectPlayStyle(Tiers[i]) : \A harder \in SelectPlayStyle(Tiers[j]) :
             RandomRange(Tiers[j], harder) <= RandomRange(Tiers[i], easier)

----------------------------------------------------------------------------
(* The host's bots: a lobby where bots are added and removed, up to the limits *)

RosterBotIds == <<401, 402, 403, 404>>

\* ids sent with 'removeBot': the bots' and the host's
RemoveTargets == {401, 402, 403, 404, 1}

NextRoster ==
  \/ \E s \in Sockets : \E n \in LobbyNamesOf(s) : Join(s, n)
  \/ \E s \in Sockets, d \in BotDifficulties : AddBotFrom(RosterBotIds, s, d)
  \/ \E s \in Sockets, botId \in RemoveTargets : RemoveBot(s, botId)
  \/ \E s \in Sockets, new \in LobbySettingsInputs : UpdateSettings(s, new)
  \/ \E s \in Sockets : StartWith(s, {JoinOrder(Len(game.players))})
  \/ \E s \in Sockets : Disconnect(s)

SpecRoster == InitLobby /\ [][NextRoster]_vars

\* addBot must refuse on g
MustRefuseAddBot(g) ==
  \/ g.started
  \/ Len(g.players) >= 7
  \/ BotCount(g.players) >= 3

\* removeBot must refuse botId on g
MustRefuseRemoveBot(g, botId) ==
  \/ g.started
  \/ ~\E i \in 1..Len(g.players) : g.players[i].id = botId /\ g.players[i].isBot

\* C40: the Game never holds more than 7 players nor more than 3 bots; addBot returns
\* false and leaves the Game as it is when the game is started, when 7 players are
\* present or when 3 bots are; removeBot does so when the game is started or the id is
\* not that of a bot in the list; the 'addBot' and 'removeBot' handlers leave the Game
\* accordingly.
C40_BotLimits ==
  [][ /\ Len(game.players) <= 7 /\ BotCount(game.players) <= 3
      /\ Len(game'.players) <= 7 /\ BotCount(game'.players) <= 3
      /\ \A d \in {"medium", "hard", "expert"} : \A i \in 1..Len(RosterBotIds) :
           MustRefuseAddBot(game) =>
             GameAddBot(game, RosterBotIds[i], d) = [ok |-> FALSE, g |-> game]
      /\ \A botId \in RemoveTargets :
           MustRefuseRemoveBot(game, botId) =>
             GameRemoveBot(game, botId) = [ok |-> FALSE, g |-> game]
      /\ \A s \in Sockets : \A d \in BotDifficulties :
           AddBotFrom(RosterBotIds, s, d) /\ MustRefuseAddBot(game) => game' = game
      /\ \A s \in Sockets : \A botId \in RemoveTargets :
           RemoveBot(s, botId) /\ MustRefuseRemoveBot(game, botId) => game' = game ]_vars

\* the lobby is full with three bots in it, one of which came after a bot was removed
C40_Witness ==
  /\ ~game.started
  /\ Len(game.players) = 7
  /\ BotCount(game.players) = 3
  /\ nextBot = 4

====
